---- MODULE Spec2Model ----
(***************************************************************************)
(* reef-core: session orchestration (agent.ts, session-manager.ts,        *)
(* provider-router.ts, providers/*.ts), the HTTP session endpoints        *)
(* (api.ts), the event bus (events.ts) and the WebSocket fan-out (ws.ts). *)
(*                                                                         *)
(* Node runs one synchronous segment at a time: every action below is one *)
(* such segment (a request handler up to its first await, the             *)
(* continuation of an await, a promise reaction).  Promise reactions are  *)
(* microtasks: they run in FIFO order before any further I/O callback, so *)
(* every I/O action is guarded by an empty microtask queue.               *)
(***************************************************************************)
EXTENDS Integers, Sequences, FiniteSets, TLC

\* ---- bounds of the model ----
MaxSessions == 1        \* sessions spawned in one run
MaxTools == 1           \* tool invocations the remote backend asks for in one run
MaxSdkEvents == 1       \* Pi SDK stream events delivered to one session
MaxCancels == 1         \* DELETE requests served for one session
MaxClients == 2         \* WebSocket connections
MaxTopics == 1          \* session ids a client names in subscribe/unsubscribe
MaxEvents == 1          \* events published directly on the bus
MaxFollowups == 1       \* follow-up prompts sent to one session
MaxFeed == 2            \* events published while one subscriber is observed
MaxMessages == 2        \* inbound messages handled for one connection
MaxUsers == 2           \* user accounts ever created
MaxPeers == 1           \* sessions already live when the observed one is spawned

\* ---- program constants ----
maxTurns == 10
sliceLimit == 4000
\* msg.sessionId of a message that carries none (undefined)
NoId == -1

\* Session ids (uid() draws them at random): those a run of the model hands
\* out, and those of sessions that are live from the start.
Ids == 1..(MaxSessions + MaxPeers)
Peers == (MaxSessions + 1)..(MaxSessions + MaxPeers)
Ws == 1..MaxClients
UserIds == 1..MaxUsers
Roles == {"admin", "user"}
\* An id that was never handed out.  Of a row the model keeps the role, the
\* active flag and whether updated_at still is created_at (rev 0); the
\* address of an account is its own until an update replaces it.
NoUser == [state |-> "absent", role |-> "user", active |-> FALSE, rev |-> 0]

\* initializeDefaultAdmin: the first start creates one active admin.
DefaultAdmin == [state |-> "present", role |-> "admin", active |-> TRUE, rev |-> 0]
Topics == 1..MaxTopics
\* Session ids named by published events: the ids clients filter on, and one
\* (0) that no client names.
EventIds == 0..MaxTopics

\* registry of providers/index.ts
registry == {"openai", "google"}
\* provider names a request may carry (the body is unchecked JSON)
RequestedProviders == {"anthropic", "openai", "carbon"}
ForceBackends == {"none", "sdk", "tmux"}
SdkFailures == {"none", "getModel", "createAgentSession", "subscribe"}
SdkEventTypes ==
    {"message_update", "message_end", "tool_execution_start",
     "tool_execution_end", "turn_start"}
ReefEventTypes ==
    {"output", "status", "session.new", "session.end", "tool.start", "tool.end"}
Terminal == {"completed", "error", "stopped"}

VARIABLES
    piSdkAvailable,   \* capability flag set once by loadPiSdk
    nextId,           \* next session id uid() hands out
    rows,             \* the sessions table: id -> row
    sdkSessions,      \* ids in the primary-backend registry
    listening,        \* ids whose Pi session still has our listener attached
    providerSessions, \* ids in the registry-routed registry
    aborted,          \* ids whose AbortController has been aborted
    run,              \* id -> position of the backend run of that session
    followups,        \* ids with a follow-up prompt (sendMessage) in flight
    tmux,             \* ids whose terminal-multiplexer session exists
    toolBudget,       \* tool invocations the remote backend may still ask for
    hist,             \* id -> the session's effects, in program order
    microtasks,       \* pending promise reactions, FIFO
    clients,          \* WebSocket connection -> state, readiness, received
    bus,              \* the events published on the bus, in publish order
    users,            \* the users table: id -> row
    tokens,           \* the bearer tokens issued by POST /auth/login
    resp              \* endpoint and status code of the latest user-API reply

vars ==
    <<piSdkAvailable, nextId, rows, sdkSessions, listening, providerSessions,
      aborted, run, followups, tmux, toolBudget, hist, microtasks, clients,
      bus, users, tokens, resp>>

\* ---------------------------------------------------------------------------
\* Effects: a session's database writes, bus events and backend calls
\* ---------------------------------------------------------------------------
Eff(k, t, d) == [k |-> k, t |-> t, d |-> d]
Ev(t, d) == Eff("event", t, d)

NoRow == [status |-> "absent", backend |-> "none", tmux |-> FALSE, out |-> 0]

insertSession(row, backend, hasTmux) ==
    [status |-> "running", backend |-> backend, tmux |-> hasTmux, out |-> 0]

updateSession(row, status) ==
    IF row.status = "absent" THEN row ELSE [row EXCEPT !.status = status]

appendOutput(row) ==
    IF row.status = "absent" THEN row ELSE [row EXCEPT !.out = @ + 1]

\* The row after one effect.
DbStep(row, e) ==
    CASE e.k = "insert" -> insertSession(row, e.t, e.d = "tmux")
      [] e.k = "update" -> updateSession(row, e.d)
      [] e.k = "append" -> appendOutput(row)
      [] OTHER -> row

RECURSIVE DbApply(_, _)
DbApply(row, effs) ==
    IF effs = <<>> THEN row ELSE DbApply(DbStep(row, Head(effs)), Tail(effs))

\* ---------------------------------------------------------------------------
\* Fan-out (ws.ts): the bus listener run synchronously by every emit
\* ---------------------------------------------------------------------------
\* inbox: the events written to the socket; acks: the replies written to it;
\* pending: sessions whose forwarded prompt this connection waits for;
\* msgs, last: the inbound messages handled so far and the latest of them.
NoMsg == [type |-> "none", sid |-> NoId, text |-> FALSE]
NoClient ==
    [conn |-> "new", subs |-> {}, inbox |-> <<>>, acks |-> <<>>, pending |-> {},
     msgs |-> 0, last |-> NoMsg]
\* A connection removed from the map: its state object is dropped with it.
Gone == [NoClient EXCEPT !.conn = "closed"]

\* A filter that passes only the ids it lists (an empty filter passes nothing).
MatchesListedOnly(c, s) == s \in c.subs

\* state.subscriptions.size === 0 || state.subscriptions.has(event.sessionId)
Matches(c, s) == c.subs = {} \/ s \in c.subs

\* conn: "new" and "closed" are not in the clients map; "closing" is in the map
\* with readyState # OPEN; "open" is in the map and writable.
InMap(c) == c.conn \in {"open", "closing"}

\* A send that puts the newest payload ahead of the ones already written.
DeliverNewestFirst(c, e) ==
    IF c.conn = "open" /\ Matches(c, e.s) THEN [c EXCEPT !.inbox = <<e>> \o @]
    ELSE c

\* The body of the loop in the eventBus.onReef listener, for one client.
Deliver(c, e) ==
    IF ~InMap(c) THEN c
    ELSE IF c.conn # "open" THEN c
    ELSE IF Matches(c, e.s) THEN [c EXCEPT !.inbox = Append(@, e)]
    ELSE c

\* emitReefEvent: every client in the map is visited, in the same segment.
emitStopsAtUnwritable(cl, e) ==
    [w \in DOMAIN cl |->
        IF \E v \in DOMAIN cl : v < w /\ cl[v].conn = "closing" THEN cl[w]
        ELSE Deliver(cl[w], e)]

emitReefEvent(cl, e) == [w \in DOMAIN cl |-> Deliver(cl[w], e)]

\* The events among the effects of session s, numbered in publish order.
RECURSIVE Published(_, _, _)
Published(s, n, effs) ==
    IF effs = <<>> THEN <<>>
    ELSE IF Head(effs).k = "event"
         THEN <<[s |-> s, n |-> n + 1, t |-> Head(effs).t, d |-> Head(effs).d]>>
              \o Published(s, n + 1, Tail(effs))
         ELSE Published(s, n, Tail(effs))

RECURSIVE Broadcast(_, _)
Broadcast(cl, evs) ==
    IF evs = <<>> THEN cl
    ELSE Broadcast(emitReefEvent(cl, Head(evs)), Tail(evs))

\* The effects `effs` of one synchronous segment on session s.
Do(s, effs) ==
    /\ hist' = [hist EXCEPT ![s] = @ \o effs]
    /\ rows' = [rows EXCEPT ![s] = DbApply(@, effs)]
    /\ bus' = bus \o Published(s, Len(bus), effs)
    /\ clients' = Broadcast(clients, Published(s, Len(bus), effs))

Job(k, s) == [k |-> k, s |-> s]
Idle == microtasks = <<>>

NoRun ==
    [origin |-> "none", pc |-> "none", turns |-> 0, calls |-> 0, asked |-> 0,
     seen |-> 0]

\* ---------------------------------------------------------------------------
\* Initial state
\* ---------------------------------------------------------------------------
InitCommon ==
    /\ piSdkAvailable \in BOOLEAN
    /\ nextId = 1
    /\ rows = [s \in Ids |-> NoRow]
    /\ sdkSessions = {}
    /\ listening = {}
    /\ providerSessions = {}
    /\ aborted = {}
    /\ run = [s \in Ids |-> NoRun]
    /\ followups = {}
    /\ tmux = {}
    /\ hist = [s \in Ids |-> <<>>]
    /\ microtasks = <<>>
    /\ clients = [w \in Ws |-> NoClient]
    /\ bus = <<>>
    /\ users = [u \in UserIds |-> IF u = 1 THEN DefaultAdmin ELSE NoUser]
    /\ tokens = {}
    /\ resp = [op |-> "none", code |-> 0]

Init ==
    /\ InitCommon
    /\ toolBudget = MaxTools

\* ---------------------------------------------------------------------------
\* Reference provider loop (providers/openai.ts, providers/google.ts)
\* ---------------------------------------------------------------------------
\* A loop that takes another turn where it should end normally.
SettledTakesAnotherTurn(r, how) ==
    IF how = "fulfilled" /\ r.turns < maxTurns
    THEN [r EXCEPT !.pc = "remote", !.turns = @ + 1, !.calls = 0]
    ELSE [r EXCEPT !.pc = how, !.calls = 0]

Settled(r, how) == [r EXCEPT !.pc = how, !.calls = 0]

\* A loop for which running into the turn cap is a failure.
LoopHeadCapFails(s, r) ==
    IF r.turns < maxTurns /\ ~(r.origin = "route" /\ s \in aborted)
    THEN [r EXCEPT !.pc = "remote", !.turns = @ + 1, !.calls = 0]
    ELSE IF r.turns >= maxTurns THEN Settled(r, "rejected")
    ELSE Settled(r, "fulfilled")

\* `while (turns < maxTurns) { if (ctx.signal.aborted) break; turns++; await ...`
\* The legacy runOpenAIAgent/runGoogleAgent take no signal.
LoopHead(s, r) ==
    IF r.turns < maxTurns /\ ~(r.origin = "route" /\ s \in aborted)
    THEN [r EXCEPT !.pc = "remote", !.turns = @ + 1, !.calls = 0]
    ELSE Settled(r, "fulfilled")

\* Start of the next tool invocation of the reply: JSON.parse of its arguments,
\* tool.start, the command line as an output chunk, then the awaited subprocess.
CallRun(r, argsOk) ==
    IF argsOk THEN [r EXCEPT !.pc = "exec"] ELSE Settled(r, "rejected")

\* data of tool.start and tool.end: the tool name and the id of the call
\* (fn.name, tc.id); r.asked - r.calls calls of the run are finished.
CallId(r) == "shell#" \o ToString(r.asked - r.calls + 1)

\* JSON.parse of the arguments, then tool.start, the command line as output
\* chunk and execAsync, which starts the subprocess.
CallEffs(r, argsOk) ==
    IF argsOk
    THEN <<Ev("tool.start", CallId(r)), Eff("append", "chunk", "command"),
           Eff("launch", "exec", CallId(r))>>
    ELSE <<>>

\* A tool invocation that ends without its tool.end event.
DoneEffsUnmatched(r, res) ==
    <<Eff("append", "chunk", res), Ev("output", res),
      Eff("push", "tool", CallId(r))>>

\* After the subprocess: the result chunk, tool.end, the output event, and
\* the tool-result message pushed into the conversation under the call's id.
DoneEffs(r, res) ==
    <<Eff("append", "chunk", res), Ev("tool.end", CallId(r)), Ev("output", res),
      Eff("push", "tool", CallId(r))>>

\* A run whose promise carries the completion handler only: a rejection
\* finds no reaction.
SettleJobsNoCatch(s, r) ==
    CASE r.pc = "fulfilled" -> <<Job("then", s)>>
      [] OTHER -> <<>>

\* The reactions queued when the promise of a run settles: .then(A).catch(B)
SettleJobs(s, r) ==
    CASE r.pc = "fulfilled" -> <<Job("then", s)>>
      [] r.pc = "rejected" -> <<Job("passReject", s)>>
      [] OTHER -> <<>>

\* The run is invoked: the API key check, then `await import(...)`.
RunStart(origin, keySet) ==
    [NoRun EXCEPT !.origin = origin, !.pc = IF keySet THEN "import" ELSE "rejected"]

\* The dynamic import resolves (or the package is missing).
ImportDone(s, ok) ==
    /\ Idle
    /\ run[s].pc = "import"
    /\ LET r == IF ok THEN LoopHead(s, run[s]) ELSE Settled(run[s], "rejected")
       IN /\ run' = [run EXCEPT ![s] = r]
          /\ microtasks' = SettleJobs(s, r)
    /\ UNCHANGED <<users, tokens, resp, piSdkAvailable, nextId, rows, sdkSessions, listening,
                   providerSessions, aborted, followups, tmux, toolBudget, hist,
                   clients, bus>>

\* The remote reply arrives: kind "fail" (the call rejects), "nomsg" (no choice
\* or candidate), or "msg" with optional text and `calls` tool invocations.
Reply(s, kind, content, calls, argsOk) ==
    /\ Idle
    /\ run[s].pc = "remote"
    /\ run[s].asked + calls <= toolBudget
    /\ kind # "msg" => ~content /\ calls = 0
    /\ LET text == IF content
                   THEN <<Eff("append", "chunk", "text"), Ev("output", "text")>>
                   ELSE <<>>
           r == CASE kind = "fail" -> Settled(run[s], "rejected")
                  [] kind = "nomsg" -> Settled(run[s], "fulfilled")
                  [] calls > 0 ->
                       CallRun([run[s] EXCEPT !.calls = calls, !.asked = @ + calls],
                               argsOk)
                  [] OTHER -> Settled(run[s], "fulfilled")
           effs == IF kind = "msg" /\ calls > 0
                   THEN text \o CallEffs([run[s] EXCEPT !.calls = calls,
                                                        !.asked = @ + calls],
                                         argsOk)
                   ELSE text
       IN /\ run' = [run EXCEPT ![s] = r]
          /\ microtasks' = SettleJobs(s, r)
          /\ Do(s, effs)
    /\ UNCHANGED <<users, tokens, resp, piSdkAvailable, nextId, sdkSessions, listening,
                   providerSessions, aborted, followups, tmux, toolBudget>>

\* The remote reply carries n tool_calls entries none of which has a
\* `function` member: `if (!fn) continue` skips each of them, nothing is
\* executed or pushed, and the `continue` after the for loop takes the next
\* turn.
ReplyNoFunction(s, content, n) ==
    /\ Idle
    /\ run[s].pc = "remote"
    /\ n > 0
    /\ run[s].asked + n <= toolBudget
    /\ LET text == IF content
                   THEN <<Eff("append", "chunk", "text"), Ev("output", "text")>>
                   ELSE <<>>
           r == LoopHead(s, [run[s] EXCEPT !.asked = @ + n])
       IN /\ run' = [run EXCEPT ![s] = r]
          /\ microtasks' = SettleJobs(s, r)
          /\ Do(s, text)
    /\ UNCHANGED <<users, tokens, resp, piSdkAvailable, nextId, sdkSessions, listening,
                   providerSessions, aborted, followups, tmux, toolBudget>>

\* The subprocess of a tool invocation ends (exit 0, or an error that the
\* try/catch turns into the result text): result chunk, tool.end, output.
ExecDone(s, ok, argsOk) ==
    /\ Idle
    /\ run[s].pc = "exec"
    /\ LET res == IF ok THEN "result" ELSE "toolerror"
           done == DoneEffs(run[s], res)
           left == [run[s] EXCEPT !.calls = @ - 1]
           r == IF left.calls > 0 THEN CallRun(left, argsOk) ELSE LoopHead(s, left)
           effs == IF left.calls > 0 THEN done \o CallEffs(left, argsOk) ELSE done
       IN /\ run' = [run EXCEPT ![s] = r]
          /\ microtasks' = SettleJobs(s, r)
          /\ Do(s, effs)
    /\ UNCHANGED <<users, tokens, resp, piSdkAvailable, nextId, sdkSessions, listening,
                   providerSessions, aborted, followups, tmux, toolBudget>>

\* Lengths of the texts a subprocess hands back: stdout, stderr, and the
\* message of the error execAsync rejects with.
Lens == {0, 1, sliceLimit - 1, sliceLimit, sliceLimit + 1}

\* A result that is fed back whole.
sliceNothing(n, k) == n

\* The length of text.slice(0, k) for a text of length n.
slice(n, k) == IF n < k THEN n ELSE k

\* The length of the text before the cut: stdout + stderr, or
\* `Error: ${e.message}\n${stdout + stderr}` (7 characters, the message, 1).
rawLength(ok, out, err, msg) ==
    IF ok THEN out + err ELSE 7 + msg + 1 + out + err

\* ExecDone with the lengths of the texts: what the subprocess produced
\* ("exec"), then the result chunk, tool.end, the output event and the
\* tool-result message pushed into the conversation ("push").
ExecTool(s, ok, out, err, msg, argsOk) ==
    /\ Idle
    /\ run[s].pc = "exec"
    /\ LET raw == rawLength(ok, out, err, msg)
           result == slice(raw, sliceLimit)
           done == <<Eff("exec", "shell", raw), Eff("append", "chunk", result),
                     Ev("tool.end", CallId(run[s])), Ev("output", result),
                     Eff("push", "tool", result)>>
           left == [run[s] EXCEPT !.calls = @ - 1]
           r == IF left.calls > 0 THEN CallRun(left, argsOk) ELSE LoopHead(s, left)
           effs == IF left.calls > 0 THEN done \o CallEffs(left, argsOk) ELSE done
       IN /\ run' = [run EXCEPT ![s] = r]
          /\ microtasks' = SettleJobs(s, r)
          /\ Do(s, effs)
    /\ UNCHANGED <<users, tokens, resp, piSdkAvailable, nextId, sdkSessions, listening,
                   providerSessions, aborted, followups, tmux, toolBudget>>

\* ---------------------------------------------------------------------------
\* ProviderRouter.route (provider-router.ts) with SessionManager.createProviderRow
\* and registerProviderRun
\* ---------------------------------------------------------------------------
getProvider(name) == name \in registry

createProviderRow(provider) ==
    <<Eff("insert", provider, "none"), Ev("session.new", provider)>>

\* One call of route(sessionId, task, provider): no await inside, so the whole
\* body, the invocation of run(ctx) up to its first await included, is one
\* segment.  The id was generated by the caller.
route(provider, keySet) ==
    /\ Idle
    /\ nextId <= MaxSessions
    /\ LET s == nextId
           call == <<Eff("call", "route", provider)>>
       IN /\ nextId' = nextId + 1
          /\ IF ~getProvider(provider)
             THEN /\ Do(s, call \o <<Eff("throw", "route", "UnknownProvider")>>)
                  /\ UNCHANGED <<providerSessions, run, microtasks>>
             ELSE LET r == RunStart("route", keySet)
                      pre == call \o createProviderRow(provider)
                                  \o <<Eff("register", "provider", "none"),
                                       Eff("launch", "run", provider)>>
                  IN /\ providerSessions' = providerSessions \cup {s}
                     /\ run' = [run EXCEPT ![s] = r]
                     /\ microtasks' = SettleJobs(s, r)
                     /\ Do(s, pre \o <<Eff("return", "route",
                                           DbApply(rows[s], pre).status)>>)
    /\ UNCHANGED <<users, tokens, resp, piSdkAvailable, sdkSessions, listening, aborted, followups,
                   tmux, toolBudget>>

\* ---------------------------------------------------------------------------
\* Promise reactions
\* ---------------------------------------------------------------------------
Next1(k) == microtasks # <<>> /\ Head(microtasks).k = k

\* .then(A) has no rejection handler: the rejection passes to .catch(B).
PassReject ==
    /\ Next1("passReject")
    /\ microtasks' = Append(Tail(microtasks), Job("catch", Head(microtasks).s))
    /\ UNCHANGED <<users, tokens, resp, piSdkAvailable, nextId, rows, sdkSessions, listening,
                   providerSessions, aborted, run, followups, tmux, toolBudget,
                   hist, clients, bus>>

\* Handlers that leave the registries as they are.
DeregisterNothing(s) == UNCHANGED <<providerSessions, sdkSessions>>

\* What the completion and failure handlers remove from the registries:
\* route: completeProviderSession; primary backend: sdkSessions.delete;
\* the legacy spawnProviderAgent registers nothing.
Deregister(s) ==
    /\ providerSessions' =
           IF run[s].origin = "route" THEN providerSessions \ {s}
           ELSE providerSessions
    /\ sdkSessions' =
           IF run[s].origin = "sdk" THEN sdkSessions \ {s} ELSE sdkSessions

CompletedEffs ==
    <<Eff("update", "status", "completed"), Ev("status", "completed"),
      Ev("session.end", "completed")>>

\* A failure handler that records the status without the readable line.
ErrorEffsSilent ==
    <<Eff("update", "status", "error"), Ev("status", "error")>>

ErrorEffs ==
    <<Eff("append", "chunk", "error"), Ev("output", "error"),
      Eff("update", "status", "error"), Ev("status", "error")>>

\* .then(() => { updateSession; emit status; emit session.end; deregister })
ThenHandler ==
    /\ Next1("then")
    /\ LET s == Head(microtasks).s
       IN /\ Do(s, CompletedEffs \o <<Eff("unregister", run[s].origin, "none")>>)
          /\ Deregister(s)
          /\ run' = [run EXCEPT ![s].pc = "done"]
    /\ microtasks' = Tail(microtasks)
    /\ UNCHANGED <<users, tokens, resp, piSdkAvailable, nextId, listening, aborted, followups, tmux,
                   toolBudget>>

\* The completion handler throws in its step n + 1 (the row update, the
\* publication of status, the publication of session.end): the steps before
\* it have taken effect, the promise of .then(A) rejects and .catch(B) runs.
ThenHandlerThrows(n) ==
    /\ Next1("then")
    /\ Do(Head(microtasks).s, SubSeq(CompletedEffs, 1, n))
    /\ microtasks' = Append(Tail(microtasks), Job("catch", Head(microtasks).s))
    /\ UNCHANGED <<users, tokens, resp, piSdkAvailable, nextId, sdkSessions, listening,
                   providerSessions, aborted, run, followups, tmux, toolBudget>>

\* .catch((err) => { appendOutput; emit output; updateSession; emit status;
\* deregister })
CatchHandler ==
    /\ Next1("catch")
    /\ LET s == Head(microtasks).s
       IN /\ Do(s, ErrorEffs \o <<Eff("unregister", run[s].origin, "none")>>)
          /\ Deregister(s)
          /\ run' = [run EXCEPT ![s].pc = "done"]
    /\ microtasks' = Tail(microtasks)
    /\ UNCHANGED <<users, tokens, resp, piSdkAvailable, nextId, listening, aborted, followups, tmux,
                   toolBudget>>

\* ---------------------------------------------------------------------------
\* Liveness, cancel, reconciliation
\* ---------------------------------------------------------------------------
\* A liveness test without the branch for registry-routed sessions.
isAliveNoProviderBranch(s, row) ==
    IF row.backend = "sdk" THEN s \in sdkSessions
    ELSE IF row.tmux THEN s \in tmux
    ELSE FALSE

isAlive(s, row) ==
    IF row.backend = "sdk" THEN s \in sdkSessions
    ELSE IF row.tmux THEN s \in tmux
    ELSE s \in providerSessions

\* SessionManager.kill (agent.ts kill is the same without the provider branch,
\* and a session of the legacy spawnProviderAgent is in no registry).
\* A cancel that announces the end before it reaps anything.
killEffsEventFirst(s, row) ==
    <<Ev("session.end", "killed")>>
    \o (IF s \in sdkSessions
        THEN <<Eff("abort", "sdk", "none"), Eff("unsubscribe", "sdk", "none"),
               Eff("unregister", "sdk", "none")>>
        ELSE <<>>)
    \o (IF s \in providerSessions
        THEN <<Eff("abort", "provider", "none"),
               Eff("unregister", "provider", "none")>>
        ELSE <<>>)
    \o (IF row.tmux THEN <<Eff("kill", "tmux", "none")>> ELSE <<>>)

killEffs(s, row) ==
    (IF s \in sdkSessions
     THEN <<Eff("abort", "sdk", "none"), Eff("unsubscribe", "sdk", "none"),
            Eff("unregister", "sdk", "none")>>
     ELSE <<>>)
    \o (IF s \in providerSessions
        THEN <<Eff("abort", "provider", "none"),
               Eff("unregister", "provider", "none")>>
        ELSE <<>>)
    \o (IF row.tmux THEN <<Eff("kill", "tmux", "none")>> ELSE <<>>)
    \o <<Ev("session.end", "killed")>>

\* A cancel that reaps the registry entry but never signals the run.
killSignalsNothing(s, row) ==
    /\ listening' = IF s \in sdkSessions THEN listening \ {s} ELSE listening
    /\ sdkSessions' = sdkSessions \ {s}
    /\ aborted' = aborted
    /\ providerSessions' = providerSessions \ {s}
    /\ tmux' = IF row.tmux THEN tmux \ {s} ELSE tmux

\* A cancel that signals the handle of every registered provider run.
killSignalsAll(s, row) ==
    /\ listening' = IF s \in sdkSessions THEN listening \ {s} ELSE listening
    /\ sdkSessions' = sdkSessions \ {s}
    /\ aborted' = IF s \in providerSessions THEN aborted \cup providerSessions
                  ELSE aborted
    /\ providerSessions' = providerSessions \ {s}
    /\ tmux' = IF row.tmux THEN tmux \ {s} ELSE tmux

kill(s, row) ==
    /\ listening' = IF s \in sdkSessions THEN listening \ {s} ELSE listening
    /\ sdkSessions' = sdkSessions \ {s}
    /\ aborted' = IF s \in providerSessions THEN aborted \cup {s} ELSE aborted
    /\ providerSessions' = providerSessions \ {s}
    /\ tmux' = IF row.tmux THEN tmux \ {s} ELSE tmux

\* agent.ts getStats: { sdk, tmux: 0, total }
getStats ==
    [sdk |-> Cardinality(sdkSessions), tmux |-> 0, provider |-> 0,
     total |-> Cardinality(sdkSessions)]

\* SessionManager.getStats: { sdk, tmux: 0, provider, total }
SessionManager_getStats ==
    [sdk |-> Cardinality(sdkSessions), tmux |-> 0,
     provider |-> Cardinality(providerSessions),
     total |-> Cardinality(sdkSessions) + Cardinality(providerSessions)]

RECURSIVE Count(_, _)
Count(effs, e) ==
    IF effs = <<>> THEN 0
    ELSE (IF Head(effs) = e THEN 1 ELSE 0) + Count(Tail(effs), e)

\* DELETE /sessions/:id: 404 without a row; else kill, then status=stopped.
DeleteSession(s) ==
    /\ Idle
    /\ rows[s].status # "absent"
    /\ Count(hist[s], Ev("session.end", "killed")) < MaxCancels
    /\ kill(s, rows[s])
    /\ Do(s, killEffs(s, rows[s]) \o <<Eff("update", "status", "stopped")>>)
    /\ UNCHANGED <<users, tokens, resp, piSdkAvailable, nextId, run, followups, toolBudget,
                   microtasks>>

\* GET /sessions: every row that is running and not alive becomes stopped.
Stale(s) == rows[s].status = "running" /\ ~isAlive(s, rows[s])

ListSessions ==
    /\ Idle
    /\ \E s \in Ids : Stale(s)
    /\ hist' = [s \in Ids |->
                   IF Stale(s)
                   THEN Append(hist[s], Eff("update", "reconcile", "stopped"))
                   ELSE hist[s]]
    /\ rows' = [s \in Ids |->
                   IF Stale(s) THEN updateSession(rows[s], "stopped") ELSE rows[s]]
    /\ UNCHANGED <<users, tokens, resp, piSdkAvailable, nextId, sdkSessions, listening,
                   providerSessions, aborted, run, followups, tmux, toolBudget,
                   microtasks, clients, bus>>

\* ---------------------------------------------------------------------------
\* agent.ts: spawn, spawnProviderAgent, spawnSdkAgent, spawnTmuxFallback
\* ---------------------------------------------------------------------------
\* spawnTmuxFallback: the terminal-multiplexer session is started by
\* spawnTmuxAgent before the row is inserted.
spawnTmuxFallback ==
    <<Eff("launch", "tmux", "none"), Eff("insert", "tmux", "tmux"),
      Ev("session.new", "tmux")>>

\* spawnSdkAgent after createAgentSession resolved, up to session.subscribe.
sdkRowEffs == <<Eff("insert", "sdk", "none"), Ev("session.new", "sdk")>>

sdkStartEffs ==
    <<Eff("subscribe", "sdk", "none"), Eff("register", "sdk", "none"),
      Eff("launch", "prompt", "none")>>

RunOf(origin, pc) == [NoRun EXCEPT !.origin = origin, !.pc = pc]

\* POST /sessions -> spawn(opts), from `await sdkReady` to the first await or
\* to the return.  `fail` is where the primary backend's setup fails.
spawn(provider, force, keySet, fail) ==
    /\ Idle
    /\ nextId <= MaxSessions
    /\ nextId' = nextId + 1
    /\ LET s == nextId
           call == <<Eff("call", "spawn", provider)>>
           backend == IF force # "none" THEN force
                      ELSE IF piSdkAvailable THEN "sdk" ELSE "tmux"
       IN IF provider = "openai" \/ provider = "google"
          THEN \* spawnProviderAgent
               LET r == RunStart("legacy", keySet)
               IN /\ run' = [run EXCEPT ![s] = r]
                  /\ microtasks' = SettleJobs(s, r) \o <<Job("thenable", s)>>
                  /\ Do(s, call \o <<Eff("insert", provider, "none"),
                                     Ev("session.new", provider),
                                     Eff("launch", "run", provider)>>)
                  /\ UNCHANGED tmux
          ELSE IF backend = "sdk"
          THEN IF fail = "getModel" \/ ~piSdkAvailable
               THEN \* getModel throws: catch -> spawnTmuxFallback
                    /\ run' = [run EXCEPT ![s] = RunOf("tmux", "tmux")]
                    /\ tmux' = tmux \cup {s}
                    /\ microtasks' = <<Job("thenable", s)>>
                    /\ Do(s, call \o spawnTmuxFallback)
               ELSE \* await createAgentSession(...)
                    /\ run' = [run EXCEPT ![s] = RunOf("sdk", "creating")]
                    /\ microtasks' = <<>>
                    /\ Do(s, call \o <<Eff("launch", "createAgentSession", "none")>>)
                    /\ UNCHANGED tmux
          ELSE \* spawnTmuxFallback, a plain value returned by spawn
               /\ run' = [run EXCEPT ![s] = RunOf("tmux", "tmux")]
               /\ tmux' = tmux \cup {s}
               /\ microtasks' = <<Job("apiResume", s)>>
               /\ Do(s, call \o spawnTmuxFallback)
    /\ UNCHANGED <<users, tokens, resp, piSdkAvailable, sdkSessions, listening, providerSessions,
                   aborted, followups, toolBudget>>

\* createAgentSession settles and spawnSdkAgent runs to its return.
\* outcome "createAgentSession": it rejected; "subscribe": session.subscribe
\* throws after the row was inserted and session.new emitted, and the
\* fallback's insertSession hits the primary key of the row already there.
SdkCreated(s, outcome) ==
    /\ Idle
    /\ run[s].pc = "creating"
    /\ CASE outcome = "ok" ->
              /\ run' = [run EXCEPT ![s].pc = "prompt"]
              /\ sdkSessions' = sdkSessions \cup {s}
              /\ listening' = listening \cup {s}
              /\ Do(s, sdkRowEffs \o sdkStartEffs)
              /\ UNCHANGED tmux
         [] outcome = "createAgentSession" ->
              /\ run' = [run EXCEPT ![s] = RunOf("tmux", "tmux")]
              /\ tmux' = tmux \cup {s}
              /\ Do(s, spawnTmuxFallback)
              /\ UNCHANGED <<sdkSessions, listening>>
         [] outcome = "subscribe" ->
              /\ run' = [run EXCEPT ![s].pc = "failed"]
              /\ tmux' = tmux \cup {s}
              /\ Do(s, sdkRowEffs \o <<Eff("launch", "tmux", "none"),
                                       Eff("throw", "insertSession", "constraint")>>)
              /\ UNCHANGED <<sdkSessions, listening>>
    /\ microtasks' = <<Job("thenFulfil", s)>>
    /\ UNCHANGED <<users, tokens, resp, piSdkAvailable, nextId, providerSessions, aborted, followups,
                   toolBudget>>

\* An async function returned a promise: NewPromiseResolveThenableJob.
ResolveThenable ==
    /\ Next1("thenable")
    /\ microtasks' = Append(Tail(microtasks), Job("thenFulfil", Head(microtasks).s))
    /\ UNCHANGED <<users, tokens, resp, piSdkAvailable, nextId, rows, sdkSessions, listening,
                   providerSessions, aborted, run, followups, tmux, toolBudget,
                   hist, clients, bus>>

\* The inner promise settles the promise of spawn.
ThenableFulfil ==
    /\ Next1("thenFulfil")
    /\ microtasks' = Append(Tail(microtasks), Job("apiResume", Head(microtasks).s))
    /\ UNCHANGED <<users, tokens, resp, piSdkAvailable, nextId, rows, sdkSessions, listening,
                   providerSessions, aborted, run, followups, tmux, toolBudget,
                   hist, clients, bus>>

\* The POST /sessions handler resumes after `await spawn(...)`: 201 with the
\* session, or 500 when spawn rejected.  d is what the caller finds in the
\* store at that moment.
ApiResume ==
    /\ Next1("apiResume")
    /\ LET s == Head(microtasks).s
       IN Do(s, <<Eff("return", "spawn",
                      IF run[s].pc = "failed" THEN "rejected" ELSE rows[s].status)>>)
    /\ microtasks' = Tail(microtasks)
    /\ UNCHANGED <<users, tokens, resp, piSdkAvailable, nextId, sdkSessions, listening,
                   providerSessions, aborted, run, followups, tmux, toolBudget>>

\* ---------------------------------------------------------------------------
\* Primary backend: the Pi session's prompt and event stream
\* ---------------------------------------------------------------------------
handleSdkEvent(type) ==
    CASE type = "message_update" ->
             <<Eff("append", "chunk", "text"), Ev("output", "streaming")>>
      [] type = "message_end" -> <<Ev("output", "complete")>>
      [] type = "tool_execution_start" ->
             <<Ev("tool.start", "sdk"), Eff("append", "chunk", "command")>>
      [] type = "tool_execution_end" -> <<Ev("tool.end", "sdk")>>
      [] type = "turn_start" -> <<Ev("output", "meta")>>
      [] OTHER -> <<>>

\* The Pi session calls our listener while one of its prompts is in flight.
SdkEvent(s, type) ==
    /\ Idle
    /\ s \in listening
    /\ run[s].pc = "prompt" \/ s \in followups
    /\ run[s].seen < MaxSdkEvents
    /\ run' = [run EXCEPT ![s].seen = @ + 1]
    /\ Do(s, handleSdkEvent(type))
    /\ UNCHANGED <<users, tokens, resp, piSdkAvailable, nextId, sdkSessions, listening,
                   providerSessions, aborted, followups, tmux, toolBudget,
                   microtasks>>

\* session.prompt(task) settles.
PromptSettles(s, ok) ==
    /\ Idle
    /\ run[s].pc = "prompt"
    /\ LET r == Settled(run[s], IF ok THEN "fulfilled" ELSE "rejected")
       IN /\ run' = [run EXCEPT ![s] = r]
          /\ microtasks' = SettleJobs(s, r)
    /\ UNCHANGED <<users, tokens, resp, piSdkAvailable, nextId, rows, sdkSessions, listening,
                   providerSessions, aborted, followups, tmux, toolBudget, hist,
                   clients, bus>>

\* sendMessage: a follow-up prompt into a session of the primary registry.
sendMessage(s) ==
    /\ Idle
    /\ s \in sdkSessions
    /\ Count(hist[s], Eff("launch", "followup", "none")) < MaxFollowups
    /\ followups' = followups \cup {s}
    /\ Do(s, <<Eff("launch", "followup", "none")>>)
    /\ UNCHANGED <<users, tokens, resp, piSdkAvailable, nextId, sdkSessions, listening,
                   providerSessions, aborted, run, tmux, toolBudget, microtasks>>

FollowupSettles(s) ==
    /\ Idle
    /\ s \in followups
    /\ followups' = followups \ {s}
    /\ UNCHANGED <<users, tokens, resp, piSdkAvailable, nextId, rows, sdkSessions, listening,
                   providerSessions, aborted, run, tmux, toolBudget, hist,
                   microtasks, clients, bus>>

\* The terminal-multiplexer session ends on its own.
TmuxExit(s) ==
    /\ Idle
    /\ s \in tmux
    /\ tmux' = tmux \ {s}
    /\ UNCHANGED <<users, tokens, resp, piSdkAvailable, nextId, rows, sdkSessions, listening,
                   providerSessions, aborted, run, followups, toolBudget, hist,
                   microtasks, clients, bus>>

\* ---------------------------------------------------------------------------
\* ws.ts: connections and subscriber commands
\* ---------------------------------------------------------------------------
WsUnchanged ==
    UNCHANGED <<users, tokens, resp, piSdkAvailable, nextId, rows, sdkSessions, listening,
                providerSessions, aborted, run, followups, tmux, toolBudget,
                hist, microtasks>>

\* A connection handler that replays what was published before it connected.
ConnectReplay(w) ==
    /\ Idle
    /\ clients[w].conn = "new"
    /\ clients' = [clients EXCEPT ![w] = [@ EXCEPT !.conn = "open", !.inbox = bus]]
    /\ UNCHANGED bus
    /\ WsUnchanged

\* wss.on('connection'): clients.set(ws, { subscriptions: new Set() })
Connect(w) ==
    /\ Idle
    /\ clients[w].conn = "new"
    /\ \A v \in Ws : v < w => clients[v].conn # "new"
    /\ clients' = [clients EXCEPT ![w] = [@ EXCEPT !.conn = "open", !.subs = {}]]
    /\ UNCHANGED bus
    /\ WsUnchanged

\* handleClientMessage, case 'subscribe'
Subscribe(w, s) ==
    /\ Idle
    /\ clients[w].conn = "open"
    /\ clients' = [clients EXCEPT ![w].subs = @ \cup {s}]
    /\ UNCHANGED bus
    /\ WsUnchanged

\* handleClientMessage, case 'unsubscribe'
Unsubscribe(w, s) ==
    /\ Idle
    /\ clients[w].conn = "open"
    /\ clients' = [clients EXCEPT ![w].subs = @ \ {s}]
    /\ UNCHANGED bus
    /\ WsUnchanged

\* handleClientMessage, case 'subscribe_all'
SubscribeAll(w) ==
    /\ Idle
    /\ clients[w].conn = "open"
    /\ clients' = [clients EXCEPT ![w].subs = {}]
    /\ UNCHANGED bus
    /\ WsUnchanged

\* The socket leaves readyState OPEN before its 'close' event is handled.
BeginClose(w) ==
    /\ Idle
    /\ clients[w].conn = "open"
    /\ clients' = [clients EXCEPT ![w].conn = "closing"]
    /\ UNCHANGED bus
    /\ WsUnchanged

\* A close handler that drops every subscriber.
CloseAll(w) ==
    /\ Idle
    /\ InMap(clients[w])
    /\ clients' = [v \in Ws |-> IF InMap(clients[v]) THEN Gone ELSE clients[v]]
    /\ UNCHANGED bus
    /\ WsUnchanged

\* ws.on('close') and ws.on('error'): clients.delete(ws)
Close(w) ==
    /\ Idle
    /\ InMap(clients[w])
    /\ clients' = [clients EXCEPT ![w] = Gone]
    /\ UNCHANGED bus
    /\ WsUnchanged

\* getWsStats: { clients: clients.size }
getWsStats == [clients |-> Cardinality({w \in Ws : InMap(clients[w])})]

\* Any component publishes one event of session s on the bus.
Publish(s, ty) ==
    /\ Idle
    /\ Len(bus) < MaxEvents
    /\ LET e == [s |-> s, n |-> Len(bus) + 1, t |-> ty, d |-> "none"]
       IN /\ bus' = Append(bus, e)
          /\ clients' = emitReefEvent(clients, e)
    /\ WsUnchanged

\* ---------------------------------------------------------------------------
\* WebSocket: inbound messages (ws.on('message'), handleClientMessage)
\* ---------------------------------------------------------------------------
\* The frames a client can send: the four commands with or without their
\* fields, a message type the switch does not know, and a frame that
\* JSON.parse rejects.
Msgs ==
    {[type |-> ty, sid |-> i, text |-> FALSE] :
        ty \in {"subscribe", "unsubscribe"}, i \in Topics \cup {NoId}}
    \cup {[type |-> "send", sid |-> i, text |-> x] :
        i \in Topics \cup {NoId}, x \in BOOLEAN}
    \cup {[type |-> ty, sid |-> NoId, text |-> FALSE] :
        ty \in {"subscribe_all", "bogus", "invalidJSON"}}

\* sendWs(ws, { type, sessionId, data })
Ack(ty, s, d) == [t |-> ty, s |-> s, d |-> d]

\* getSession(msg.sessionId)
getSession(s) == IF s \in Ids THEN rows[s] ELSE NoRow

\* A lookup that accepts every session that has a row.
RegisteredAnyRow(s) == getSession(s).status # "absent"

\* runningSessions.get(sessionId) / this.sdkSessions.get(sessionId)
Registered(s) == s \in Ids /\ s \in sdkSessions

\* case 'send' reaches sendMessage and sendMessage reaches session.prompt
Forwarded(m) ==
    /\ m.type = "send"
    /\ m.sid # NoId
    /\ m.text
    /\ getSession(m.sid).status # "absent"
    /\ Registered(m.sid)

\* A subscribe that replaces the filter.
newSubsReplaces(subs, m) ==
    CASE m.type = "subscribe" -> {m.sid}
      [] m.type = "unsubscribe" -> subs \ {m.sid}
      [] m.type = "subscribe_all" -> {}
      [] OTHER -> subs

\* An unsubscribe that never empties the filter: the last id stays.
newSubsKeepsLast(subs, m) ==
    CASE m.type = "subscribe" -> subs \cup {m.sid}
      [] m.type = "unsubscribe" -> IF subs \ {m.sid} = {} THEN subs ELSE subs \ {m.sid}
      [] m.type = "subscribe_all" -> {}
      [] OTHER -> subs

\* state.subscriptions after the switch
newSubs(subs, m) ==
    CASE m.type = "subscribe" -> subs \cup {m.sid}
      [] m.type = "unsubscribe" -> subs \ {m.sid}
      [] m.type = "subscribe_all" -> {}
      [] OTHER -> subs

\* What the handler writes to the socket before it returns to the event
\* loop.  sendMessage of a session that is not registered resolves to false
\* without awaiting anything, so its reply follows in the same run of
\* microtasks; a forwarded prompt is answered when it settles.
replyTo(m) ==
    CASE m.type = "invalidJSON" -> <<Ack("error", NoId, "invalid JSON")>>
      [] m.type = "subscribe" -> <<Ack("subscribed", m.sid, "none")>>
      [] m.type = "unsubscribe" -> <<Ack("unsubscribed", m.sid, "none")>>
      [] m.type = "subscribe_all" -> <<Ack("subscribed", NoId, "*")>>
      [] m.type = "send" ->
            IF m.sid = NoId \/ ~m.text THEN <<>>
            ELSE IF getSession(m.sid).status = "absent"
                 THEN <<Ack("error", NoId, "session not found")>>
            ELSE IF Forwarded(m) THEN <<>>
            ELSE <<Ack("error", m.sid, "send failed")>>
      [] OTHER -> <<Ack("error", NoId, "unknown message type")>>

RECURSIVE MsgTotal(_)
MsgTotal(ws) ==
    IF ws = {} THEN 0
    ELSE LET w == CHOOSE v \in ws : TRUE
         IN clients[w].msgs + MsgTotal(ws \ {w})

\* ws.on('message'): JSON.parse, then handleClientMessage
handleClientMessage(w, m) ==
    /\ Idle
    /\ clients[w].conn = "open"
    /\ MsgTotal(Ws) < MaxMessages
    /\ clients' =
          [clients EXCEPT ![w] =
              [@ EXCEPT !.subs = newSubs(@, m),
                        !.acks = @ \o replyTo(m),
                        !.pending = IF Forwarded(m) THEN @ \cup {m.sid} ELSE @,
                        !.msgs = @ + 1,
                        !.last = m]]
    /\ IF Forwarded(m)
       THEN /\ m.sid \notin followups
            /\ Count(hist[m.sid], Eff("launch", "followup", "none")) < MaxFollowups
            /\ followups' = followups \cup {m.sid}
            /\ hist' = [hist EXCEPT ![m.sid] =
                          Append(@, Eff("launch", "followup", "none"))]
       ELSE UNCHANGED <<followups, hist>>
    /\ UNCHANGED <<users, tokens, resp, piSdkAvailable, nextId, rows, sdkSessions, listening,
                   providerSessions, aborted, run, tmux, toolBudget,
                   microtasks, bus>>

\* session.prompt of a forwarded message settles: sendMessage resolves to
\* true or to false and the .then of case 'send' writes the reply.
SendSettles(w, s, ok) ==
    /\ Idle
    /\ s \in clients[w].pending
    /\ s \in followups
    /\ followups' = followups \ {s}
    /\ clients' =
          [clients EXCEPT ![w] =
              [@ EXCEPT !.pending = @ \ {s},
                        !.acks = Append(@, IF ok THEN Ack("sent", s, "sent")
                                           ELSE Ack("error", s, "send failed"))]]
    /\ UNCHANGED <<users, tokens, resp, piSdkAvailable, nextId, rows, sdkSessions, listening,
                   providerSessions, aborted, run, tmux, toolBudget, hist,
                   microtasks, bus>>

\* ---------------------------------------------------------------------------
\* User accounts: auth.ts, user-db.ts, SqliteUserStore, the /users endpoints
\* ---------------------------------------------------------------------------
\* A request without an Authorization header, or with a token that
\* verifyToken rejects.
Anonymous == [uid |-> 0, role |-> "none"]

\* store.get(id)
getUser(u) == IF u \in UserIds /\ users[u].state = "present" THEN users[u] ELSE NoUser

\* generateToken(user): the payload carries the id and the role of that moment
generateToken(u) == [uid |-> u, role |-> users[u].role]

\* authenticate: extractTokenFromHeader, verifyToken (signature and expiry)
authenticate(tok) == tok \in tokens

\* requireAuth: 0 lets the request pass, otherwise the status code sent
requireAuth(tok) == IF authenticate(tok) THEN 0 ELSE 401

\* A guard that lets every authenticated requester pass.
requireAdminAnyRole(tok) == requireAuth(tok)

\* requireAdmin
requireAdmin(tok) ==
    IF requireAuth(tok) # 0 THEN requireAuth(tok)
    ELSE IF tok.role # "admin" THEN 403
    ELSE 0

\* The reply of an endpoint: status code, and the store and the issued
\* tokens it leaves behind.
Out(code, us, toks) == [code |-> code, users |-> us, tokens |-> toks]
Rejected(code) == Out(code, users, tokens)

\* store.verifyPassword(email, password): the row of that address if it is
\* active and the password hashes to its password_hash
verifyPassword(u, good) == getUser(u) # NoUser /\ users[u].active /\ good

\* POST /auth/login with the address of account u
postLogin(u, good) ==
    IF ~verifyPassword(u, good) THEN Rejected(401)
    ELSE Out(200, users, tokens \cup {generateToken(u)})

\* ids that generateId has not produced yet
FreeIds == {u \in UserIds : users[u].state = "absent"}

\* POST /users; taken: getUserByEmail finds a row with the address
postUsers(tok, role, complete, taken) ==
    IF requireAdmin(tok) # 0 THEN Rejected(requireAdmin(tok))
    ELSE IF ~complete THEN Rejected(400)
    ELSE IF taken THEN Rejected(409)
    ELSE LET u == CHOOSE v \in FreeIds : \A x \in FreeIds : v <= x
         IN Out(201,
                [users EXCEPT ![u] =
                    [state |-> "present", role |-> role, active |-> TRUE,
                     rev |-> 0]],
                tokens)

\* GET /users
getUsers(tok) ==
    IF requireAdmin(tok) # 0 THEN Rejected(requireAdmin(tok)) ELSE Rejected(200)

\* GET /users/me
getUsersMe(tok) ==
    IF requireAuth(tok) # 0 THEN Rejected(requireAuth(tok))
    ELSE IF getUser(tok.uid) = NoUser THEN Rejected(404)
    ELSE Rejected(200)

\* GET /users/:id
getUsersId(tok, id) ==
    IF requireAdmin(tok) # 0 THEN Rejected(requireAdmin(tok))
    ELSE IF getUser(id) = NoUser THEN Rejected(404)
    ELSE Rejected(200)

\* The bodies of PUT /users/:id: the keys present, the values of role and
\* active, and whether the address submitted is the address of another row.
Bodies ==
    {[keys |-> k, role |-> "user", active |-> TRUE, taken |-> FALSE] :
        k \in {{"name"}, {"password"}, {"name", "password"}}}
    \cup {[keys |-> {"role"}, role |-> r, active |-> TRUE, taken |-> FALSE] :
        r \in Roles}
    \cup {[keys |-> {"active"}, role |-> "user", active |-> a, taken |-> FALSE] :
        a \in BOOLEAN}
    \cup {[keys |-> {"email"}, role |-> "user", active |-> TRUE, taken |-> x] :
        x \in BOOLEAN}
    \cup {[keys |-> {"name", "role"}, role |-> "admin", active |-> TRUE,
           taken |-> FALSE]}

\* SqliteUserStore.update on a row that exists: updated_at always changes
update(row, body) ==
    [row EXCEPT
        !.rev = 1,
        !.role = IF "role" \in body.keys THEN body.role ELSE @,
        !.active = IF "active" \in body.keys THEN body.active ELSE @]

\* PUT /users/:id.  The users table declares email UNIQUE: an UPDATE to an
\* address another row holds throws and the request ends with 500.
putUsersId(tok, id, body) ==
    IF requireAuth(tok) # 0 THEN Rejected(requireAuth(tok))
    ELSE IF tok.role # "admin" /\ tok.uid # id THEN Rejected(403)
    ELSE IF tok.role # "admin" /\ body.keys \ {"name", "password"} # {}
         THEN Rejected(403)
    ELSE IF getUser(id) = NoUser THEN Rejected(404)
    ELSE IF "email" \in body.keys /\ body.taken THEN Rejected(500)
    ELSE Out(200, [users EXCEPT ![id] = update(@, body)], tokens)

\* A DELETE /users/:id without the check of the requester's own id.
deleteUsersIdAnyTarget(tok, id) ==
    IF requireAdmin(tok) # 0 THEN Rejected(requireAdmin(tok))
    ELSE IF getUser(id) = NoUser THEN Rejected(404)
    ELSE Out(200, [users EXCEPT ![id].state = "deleted"], tokens)

\* DELETE /users/:id
deleteUsersId(tok, id) ==
    IF requireAdmin(tok) # 0 THEN Rejected(requireAdmin(tok))
    ELSE IF tok.uid = id THEN Rejected(400)
    ELSE IF getUser(id) = NoUser THEN Rejected(404)
    ELSE Out(200, [users EXCEPT ![id].state = "deleted"], tokens)

\* The server answers one request of the user API.
Serve(op, out) ==
    /\ Idle
    /\ users' = out.users
    /\ tokens' = out.tokens
    /\ resp' = [op |-> op, code |-> out.code]
    /\ UNCHANGED <<piSdkAvailable, nextId, rows, sdkSessions, listening,
                   providerSessions, aborted, run, followups, tmux, toolBudget,
                   hist, microtasks, clients, bus>>

\* What a client can put in the Authorization header.
Bearers == tokens \cup {Anonymous}

\* Rows other than u exist, so an address can be that of another row.
Others(u) == {v \in UserIds \ {u} : users[v].state = "present"}

Login(u, good) == Serve("postLogin", postLogin(u, good))
CreateUser(tok, role, complete, taken) ==
    /\ FreeIds # {}
    /\ Serve("postUsers", postUsers(tok, role, complete, taken))
ListUsers(tok) == Serve("getUsers", getUsers(tok))
GetMe(tok) == Serve("getUsersMe", getUsersMe(tok))
GetUserById(tok, id) == Serve("getUsersId", getUsersId(tok, id))
UpdateUser(tok, id, body) ==
    /\ body.taken => Others(id) # {}
    /\ Serve("putUsersId", putUsersId(tok, id, body))
DeleteUser(tok, id) == Serve("deleteUsersId", deleteUsersId(tok, id))

\* ---------------------------------------------------------------------------
\* Specifications
\* ---------------------------------------------------------------------------
Replies == {"fail", "nomsg", "msg"}

Loop ==
    \/ \E s \in Ids, ok \in BOOLEAN : ImportDone(s, ok)
    \/ \E s \in Ids, kind \in Replies, c \in BOOLEAN, n \in 0..MaxTools,
          a \in BOOLEAN : Reply(s, kind, c, n, a)
    \/ \E s \in Ids, ok \in BOOLEAN, a \in BOOLEAN : ExecDone(s, ok, a)
    \/ PassReject
    \/ ThenHandler
    \/ CatchHandler
    \/ \E s \in Ids : DeleteSession(s)

\* Sessions of the registry-routed backends, started through ProviderRouter.
InitRoute ==
    /\ InitCommon
    /\ piSdkAvailable
    /\ toolBudget = MaxTools

NextRoute ==
    \/ \E p \in RequestedProviders, k \in BOOLEAN : route(p, k)
    \/ Loop

SpecRoute == InitRoute /\ [][NextRoute]_vars

\* Sessions started through POST /sessions and agent.ts spawn.
Next ==
    \/ \E p \in RequestedProviders, f \in ForceBackends, k \in BOOLEAN,
          x \in SdkFailures : spawn(p, f, k, x)
    \/ \E s \in Ids, o \in {"ok", "createAgentSession", "subscribe"} :
          SdkCreated(s, o)
    \/ ResolveThenable
    \/ ThenableFulfil
    \/ ApiResume
    \/ \E s \in Ids, ty \in SdkEventTypes : SdkEvent(s, ty)
    \/ \E s \in Ids, ok \in BOOLEAN : PromptSettles(s, ok)
    \/ \E s \in Ids : sendMessage(s)
    \/ \E s \in Ids : FollowupSettles(s)
    \/ \E s \in Ids : TmuxExit(s)
    \/ ListSessions
    \/ Loop

Spec == Init /\ [][Next]_vars

\* The bus and the fan-out alone: events of any session, any subscribers.
InitWs ==
    /\ InitCommon
    /\ piSdkAvailable
    /\ toolBudget = 0

NextWs ==
    \/ \E w \in Ws : Connect(w)
    \/ \E w \in Ws, s \in Topics : Subscribe(w, s)
    \/ \E w \in Ws, s \in Topics : Unsubscribe(w, s)
    \/ \E w \in Ws : SubscribeAll(w)
    \/ \E w \in Ws : BeginClose(w)
    \/ \E w \in Ws : Close(w)
    \/ \E s \in EventIds : Publish(s, "output")

SpecWs == InitWs /\ [][NextWs]_vars

\* One run of the reference loop, long enough to reach the turn cap.  The
\* remote backend answers freely until it has asked for MaxTools tool
\* invocations; from then on every reply asks for exactly one more, without
\* text, and the subprocess succeeds.
Uniform(kind, content, calls, argsOk) ==
    kind = "msg" /\ ~content /\ calls = 1 /\ argsOk

InitLoop ==
    /\ InitCommon
    /\ piSdkAvailable
    /\ toolBudget = maxTurns * MaxTools

NextLoop ==
    \/ \E p \in RequestedProviders, k \in BOOLEAN :
          (\A s \in Ids : hist[s] = <<>>) /\ route(p, k)
    \/ \E s \in Ids, ok \in BOOLEAN : ImportDone(s, ok)
    \/ \E s \in Ids, kind \in Replies, c \in BOOLEAN, n \in 0..MaxTools,
          a \in BOOLEAN :
          /\ run[s].asked < MaxTools \/ Uniform(kind, c, n, a)
          /\ Reply(s, kind, c, n, a)
    \/ \E s \in Ids, ok \in BOOLEAN, a \in BOOLEAN :
          /\ run[s].asked <= MaxTools \/ (ok /\ a)
          /\ ExecDone(s, ok, a)
    \/ PassReject
    \/ ThenHandler
    \/ CatchHandler
    \/ \E s \in Ids : DeleteSession(s)

SpecLoop == InitLoop /\ [][NextLoop]_vars

\* The same run under the scheduling of the event loop: a pending promise
\* reaction is always run, the dynamic import settles, and every remote call
\* and every tool subprocess eventually returns or fails.
RunProgress(s) ==
    \/ \E ok \in BOOLEAN : ImportDone(s, ok)
    \/ \E kind \in Replies, c \in BOOLEAN, n \in 0..MaxTools, a \in BOOLEAN :
          /\ run[s].asked < MaxTools \/ Uniform(kind, c, n, a)
          /\ Reply(s, kind, c, n, a)
    \/ \E ok \in BOOLEAN, a \in BOOLEAN :
          /\ run[s].asked <= MaxTools \/ (ok /\ a)
          /\ ExecDone(s, ok, a)

FairLoop ==
    /\ \A s \in Ids : WF_vars(RunProgress(s))
    /\ WF_vars(PassReject)
    /\ WF_vars(ThenHandler)
    /\ WF_vars(CatchHandler)

SpecLoopFair == InitLoop /\ [][NextLoop]_vars /\ FairLoop

\* One run of the reference loop whose completion handler may fail.
NextFault ==
    \/ NextLoop
    \/ \E n \in 0..2 : ThenHandlerThrows(n)

SpecFault == InitLoop /\ [][NextFault]_vars

\* One run of the reference loop with replies of every shape, tool_calls
\* entries without a function included.
NextConv ==
    \/ NextLoop
    \/ \E s \in Ids, c \in BOOLEAN, n \in 1..MaxTools :
          /\ run[s].asked < MaxTools
          /\ ReplyNoFunction(s, c, n)

SpecConv == InitLoop /\ [][NextConv]_vars

\* A registry-routed session is spawned, runs and is cancelled next to
\* sessions that are live already: each of those was started through route
\* or through the primary backend, is registered, and awaits its remote
\* reply or its prompt.
routedPeer ==
    <<Eff("call", "route", "openai")>> \o createProviderRow("openai")
    \o <<Eff("register", "provider", "none"), Eff("launch", "run", "openai"),
         Eff("return", "route", "running")>>

sdkPeer ==
    <<Eff("call", "spawn", "anthropic"),
      Eff("launch", "createAgentSession", "none")>>
    \o sdkRowEffs \o sdkStartEffs \o <<Eff("return", "spawn", "running")>>

PeerHist(fam, s) ==
    IF s \notin Peers THEN <<>>
    ELSE IF fam[s] = "sdk" THEN sdkPeer ELSE routedPeer

RECURSIVE PeerBus(_, _, _)
PeerBus(fam, ps, log) ==
    IF ps = {} THEN log
    ELSE LET p == CHOOSE v \in ps : \A x \in ps : v <= x
         IN PeerBus(fam, ps \ {p}, log \o Published(p, Len(log), PeerHist(fam, p)))

InitPair ==
    /\ piSdkAvailable = TRUE
    /\ nextId = 1
    /\ \E fam \in [Peers -> {"sdk", "route"}] :
          /\ hist = [s \in Ids |-> PeerHist(fam, s)]
          /\ rows = [s \in Ids |-> DbApply(NoRow, PeerHist(fam, s))]
          /\ sdkSessions = {s \in Peers : fam[s] = "sdk"}
          /\ listening = {s \in Peers : fam[s] = "sdk"}
          /\ providerSessions = {s \in Peers : fam[s] = "route"}
          /\ run = [s \in Ids |->
                       IF s \notin Peers THEN NoRun
                       ELSE IF fam[s] = "sdk" THEN RunOf("sdk", "prompt")
                       ELSE [RunOf("route", "remote") EXCEPT !.turns = 1]]
          /\ bus = PeerBus(fam, Peers, <<>>)
    /\ aborted = {}
    /\ followups = {}
    /\ tmux = {}
    /\ toolBudget = MaxTools
    /\ microtasks = <<>>
    /\ clients = [w \in Ws |-> NoClient]
    /\ users = [u \in UserIds |-> IF u = 1 THEN DefaultAdmin ELSE NoUser]
    /\ tokens = {}
    /\ resp = [op |-> "none", code |-> 0]

NextPair ==
    \/ \E k \in BOOLEAN :
          (\A s \in Ids \ Peers : hist[s] = <<>>) /\ route("openai", k)
    \/ \E s \in Ids \ Peers, ok \in BOOLEAN : ImportDone(s, ok)
    \/ \E s \in Ids \ Peers, kind \in Replies, c \in BOOLEAN, n \in 0..MaxTools,
          a \in BOOLEAN : Reply(s, kind, c, n, a)
    \/ \E s \in Ids \ Peers, ok \in BOOLEAN, a \in BOOLEAN : ExecDone(s, ok, a)
    \/ PassReject
    \/ ThenHandler
    \/ CatchHandler
    \/ \E s \in Ids \ Peers : DeleteSession(s)
    \/ \E s \in Peers :
          s \in sdkSessions \cup providerSessions /\ DeleteSession(s)

SpecPair == InitPair /\ [][NextPair]_vars

\* The life of one session of any backend family, from its spawn on.
NextLife ==
    \/ \E p \in RequestedProviders, k \in BOOLEAN :
          (\A s \in Ids : hist[s] = <<>>) /\ route(p, k)
    \/ \E p \in RequestedProviders, f \in ForceBackends, k \in BOOLEAN,
          x \in SdkFailures :
          (\A s \in Ids : hist[s] = <<>>) /\ spawn(p, f, k, x)
    \/ \E s \in Ids, o \in {"ok", "createAgentSession", "subscribe"} :
          SdkCreated(s, o)
    \/ ResolveThenable
    \/ ThenableFulfil
    \/ ApiResume
    \/ \E s \in Ids, ty \in SdkEventTypes : SdkEvent(s, ty)
    \/ \E s \in Ids, ok \in BOOLEAN : PromptSettles(s, ok)
    \/ \E s \in Ids : sendMessage(s)
    \/ \E s \in Ids : FollowupSettles(s)
    \/ \E s \in Ids : TmuxExit(s)
    \/ ListSessions
    \/ Loop

SpecLife == Init /\ [][NextLife]_vars

\* One run of the reference loop with the sizes of the tool results.
NextTool ==
    \/ \E p \in registry, k \in BOOLEAN :
          (\A s \in Ids : hist[s] = <<>>) /\ route(p, k)
    \/ \E s \in Ids, ok \in BOOLEAN : ImportDone(s, ok)
    \/ \E s \in Ids, kind \in Replies, c \in BOOLEAN, n \in 0..MaxTools,
          a \in BOOLEAN : Reply(s, kind, c, n, a)
    \/ \E s \in Ids, ok \in BOOLEAN, out \in Lens, err \in Lens, msg \in Lens,
          a \in BOOLEAN : ExecTool(s, ok, out, err, msg, a)
    \/ PassReject
    \/ ThenHandler
    \/ CatchHandler

SpecTool == InitRoute /\ [][NextTool]_vars

\* One subscriber observed over a longer feed of events of several sessions.
First == CHOOSE w \in Ws : \A v \in Ws : w <= v

Feed(s, ty) ==
    /\ Idle
    /\ Len(bus) < MaxFeed
    /\ LET e == [s |-> s, n |-> Len(bus) + 1, t |-> ty, d |-> "none"]
       IN /\ bus' = Append(bus, e)
          /\ clients' = emitReefEvent(clients, e)
    /\ WsUnchanged

NextFeed ==
    \/ Connect(First)
    \/ \E s \in Topics : Subscribe(First, s)
    \/ \E s \in Topics : Unsubscribe(First, s)
    \/ SubscribeAll(First)
    \/ BeginClose(First)
    \/ Close(First)
    \/ \E s \in EventIds, ty \in {"output", "status"} : Feed(s, ty)

SpecFeed == InitWs /\ [][NextFeed]_vars

\* One subscriber that changes its filter by subscribe and unsubscribe
\* frames while events of several sessions are published.
NextSubs ==
    \/ Connect(First)
    \/ \E m \in {x \in Msgs : x.type \in {"subscribe", "unsubscribe"} /\ x.sid # NoId} :
          handleClientMessage(First, m)
    \/ \E s \in EventIds : Feed(s, "output")

SpecSubs == InitWs /\ [][NextSubs]_vars

\* Connections that come and go while events are published: subscribers
\* connect, narrow their filter, stop being writable and are removed.
NextConn ==
    \/ \E w \in Ws : Connect(w)
    \/ \E w \in Ws, s \in Topics : Subscribe(w, s)
    \/ \E w \in Ws : BeginClose(w)
    \/ \E w \in Ws : Close(w)
    \/ \E s \in EventIds : Publish(s, "output")

SpecConn == InitWs /\ [][NextConn]_vars

\* Subscribers that send frames of every kind while no session exists.
NextCmd ==
    \/ \E w \in Ws : Connect(w)
    \/ \E w \in Ws, m \in Msgs : handleClientMessage(w, m)

SpecCmd == InitWs /\ [][NextCmd]_vars

\* One session of the primary family or of the multiplexer, and subscribers
\* that send it messages.
NextSend ==
    \/ \E f \in ForceBackends :
          (\A s \in Ids : hist[s] = <<>>) /\ spawn("anthropic", f, TRUE, "none")
    \/ \E s \in Ids : SdkCreated(s, "ok")
    \/ ResolveThenable
    \/ ThenableFulfil
    \/ ApiResume
    \/ \E s \in Ids, ok \in BOOLEAN : PromptSettles(s, ok)
    \/ \E s \in Ids : TmuxExit(s)
    \/ PassReject
    \/ ThenHandler
    \/ CatchHandler
    \/ \E w \in Ws : Connect(w)
    \/ \E w \in Ws, m \in {x \in Msgs : x.type = "send"} :
          handleClientMessage(w, m)
    \/ \E w \in Ws, s \in Ids, ok \in BOOLEAN : SendSettles(w, s, ok)

SpecSend == Init /\ [][NextSend]_vars

\* The user API alone: logins and account management by any requester.
NextUsers ==
    \/ \E u \in UserIds, good \in BOOLEAN : Login(u, good)
    \/ \E tok \in Bearers, role \in Roles, complete \in BOOLEAN,
          taken \in BOOLEAN : CreateUser(tok, role, complete, taken)
    \/ \E tok \in Bearers : ListUsers(tok)
    \/ \E tok \in Bearers : GetMe(tok)
    \/ \E tok \in Bearers, id \in UserIds : GetUserById(tok, id)
    \/ \E tok \in Bearers, id \in UserIds, body \in Bodies :
          UpdateUser(tok, id, body)
    \/ \E tok \in Bearers, id \in UserIds : DeleteUser(tok, id)

SpecUsers == InitWs /\ [][NextUsers]_vars

\* Administration alone: accounts are created, promoted, demoted and deleted
\* by whoever holds a token.
NextAdmin ==
    \/ \E u \in UserIds : Login(u, TRUE)
    \/ \E tok \in Bearers, role \in Roles : CreateUser(tok, role, TRUE, FALSE)
    \/ \E tok \in Bearers, id \in UserIds,
          body \in {b \in Bodies : b.keys = {"role"}} :
          UpdateUser(tok, id, body)
    \/ \E tok \in Bearers, id \in UserIds : DeleteUser(tok, id)

SpecAdmin == InitWs /\ [][NextAdmin]_vars

\* ---------------------------------------------------------------------------
\* Properties
\* ---------------------------------------------------------------------------
IsEv(e, t) == e.k = "event" /\ e.t = t
Pos(s) == 1..Len(hist[s])
\* The status of the row of s after the first i effects of the session.
StatusAfter(s, i) == DbApply(NoRow, SubSeq(hist[s], 1, i)).status
EndCount(h) == Cardinality({i \in 1..Len(h) : IsEv(h[i], "session.end")})
NewCount(h) == Cardinality({i \in 1..Len(h) : IsEv(h[i], "session.new")})
InsertCount(h) == Cardinality({i \in 1..Len(h) : h[i].k = "insert"})
\* The event at position j belongs to the announcement of the terminal status:
\* only status and session.end events lie between the last row update and j.
Announces(s, j) ==
    /\ hist[s][j].t \in {"status", "session.end"}
    /\ \E u \in 1..(j - 1) :
          /\ hist[s][u].k = "update"
          /\ \A m \in (u + 1)..(j - 1) :
                hist[s][m].k = "event" /\ hist[s][m].t \in {"status", "session.end"}
\* The step is a DELETE /sessions/:id of s.
CancelStep(s) ==
    /\ Len(hist'[s]) > Len(hist[s])
    /\ hist'[s][Len(hist'[s])] = Eff("update", "status", "stopped")
BackendWork(e) == e.k = "launch" /\ e.t \in {"run", "prompt", "tmux"}
\* The event a publish step puts on the bus.
Emitted == bus'[Len(bus')]
PublishStep == Len(bus') = Len(bus) + 1

\* C1: status is monotonic: once the recorded status of a session is
\* completed, error or stopped, it never changes again, and the only status
\* event after it is the one announcing that status, under any interleaving
\* of spawn, completion, failure, cancel and reconciliation.
C1_StatusMonotonic ==
    \A s \in Ids : \A j \in Pos(s) :
        StatusAfter(s, j - 1) \in Terminal =>
            /\ StatusAfter(s, j) = StatusAfter(s, j - 1)
            /\ IsEv(hist[s][j], "status") =>
                   /\ hist[s][j].d = StatusAfter(s, j - 1)
                   /\ hist[s][j - 1].k = "update"

\* C2: after a terminal status has been recorded for a session, no event of
\* any kind is emitted for it except the terminating announcement itself, also
\* when a provider turn or a follow-up prompt is still in flight.
C2_SilentAfterTerminal ==
    \A s \in Ids : \A j \in Pos(s) :
        (StatusAfter(s, j - 1) \in Terminal /\ hist[s][j].k = "event")
            => Announces(s, j)

\* C3: a registry-routed session cancelled while its loop runs has, over its
\* whole remaining life, exactly one end-session event, with reason "killed",
\* and isAlive reports it as not alive from the cancel onward.
C3_CancelOneEnd ==
    \A s \in Ids :
        (\E i \in Pos(s) : hist[s][i] = Eff("abort", "provider", "none")) =>
            /\ EndCount(hist[s]) = 1
            /\ \A i \in Pos(s) :
                  IsEv(hist[s][i], "session.end") => hist[s][i].d = "killed"
            /\ ~isAlive(s, rows[s])

\* C4: a cancel of a session that is in neither registry and already
\* completed, failed or cancelled changes no registry and emits no end-session
\* event.
C4_LateCancelNoOp ==
    [][\A s \in Ids :
          (/\ CancelStep(s)
           /\ s \notin sdkSessions
           /\ s \notin providerSessions
           /\ rows[s].status \in Terminal)
          => /\ EndCount(hist'[s]) = EndCount(hist[s])
             /\ UNCHANGED <<sdkSessions, providerSessions>>]_vars

\* C5: when a launched run has ended, by completion or by failure, a status
\* event (completed or error) has been emitted and an end-session event of the
\* same session follows it.
C5_StatusThenEnd ==
    \A s \in Ids :
        /\ run[s].pc = "done" =>
              \E i \in Pos(s) :
                  IsEv(hist[s][i], "status") /\ hist[s][i].d \in {"completed", "error"}
        /\ \A i \in Pos(s) :
              (IsEv(hist[s][i], "status") /\ hist[s][i].d \in {"completed", "error"})
              => \E j \in Pos(s) : j > i /\ IsEv(hist[s][j], "session.end")

\* C6: for every spawn that returns a session, the row write comes first, then
\* the new-session event, both before any backend work and before the return,
\* and the caller finds the row with status running when it observes the return.
C6_RowThenNewThenReturn ==
    \A s \in Ids : \A r \in Pos(s) :
        (hist[s][r].k = "return" /\ hist[s][r].d # "rejected") =>
            /\ \E i \in 1..r, n \in 1..r :
                  /\ i < n /\ n < r
                  /\ hist[s][i].k = "insert"
                  /\ IsEv(hist[s][n], "session.new")
                  /\ \A m \in 1..n : ~BackendWork(hist[s][m])
            /\ hist[s][r].d = "running"

\* C7: a spawn naming a provider without a registered implementation is
\* rejected in the calling segment with UnknownProvider; it creates no row,
\* emits no event and registers nothing.
C7_UnknownProviderRejected ==
    \A s \in Ids :
        (/\ hist[s] # <<>>
         /\ hist[s][1].k = "call"
         /\ hist[s][1].d \notin registry \cup {"anthropic"})
        => /\ hist[s] = <<hist[s][1], Eff("throw", hist[s][1].t, "UnknownProvider")>>
           /\ rows[s] = NoRow
           /\ s \notin sdkSessions \cup providerSessions

\* C8: a primary-backend spawn whose setup fails after the agent session was
\* requested returns a session on the terminal-multiplexer backend, with
\* exactly one row, exactly one new-session event and no error status event.
C8_SetupFailureFallsBack ==
    \A s \in Ids :
        (/\ \E i \in Pos(s) : hist[s][i] = Eff("launch", "createAgentSession", "none")
         /\ \E i \in Pos(s) : hist[s][i] = Eff("launch", "tmux", "none")
         /\ \E r \in Pos(s) : hist[s][r].k = "return")
        => /\ \A r \in Pos(s) : hist[s][r].k = "return" => hist[s][r].d # "rejected"
           /\ rows[s].backend = "tmux"
           /\ InsertCount(hist[s]) = 1
           /\ NewCount(hist[s]) = 1
           /\ \A i \in Pos(s) : ~(IsEv(hist[s][i], "status") /\ hist[s][i].d = "error")

\* C9: for every published event and every connected writable subscriber, the
\* subscriber receives the event if and only if its filter set is empty or
\* contains the session id of the event.
C9_FanOutFilter ==
    [][PublishStep =>
          \A w \in Ws :
              clients[w].conn = "open" =>
                  IF clients[w].subs = {} \/ Emitted.s \in clients[w].subs
                  THEN clients'[w].inbox = Append(clients[w].inbox, Emitted)
                  ELSE clients'[w].inbox = clients[w].inbox]_vars

\* A subscriber filtered to one session and a subscriber with an empty filter
\* have both received the published event of that session.
C9_Witness ==
    \E w \in Ws, v \in Ws :
        /\ bus # <<>>
        /\ clients[w].conn = "open" /\ clients[w].subs = {}
        /\ clients[v].conn = "open" /\ clients[v].subs = {bus[1].s}
        /\ clients[w].inbox = bus
        /\ clients[v].inbox = bus

\* C10: during the fan-out of one event a subscriber whose connection is not
\* writable is skipped and never served later, the event is published all the
\* same, and every other matching writable subscriber receives it.
C10_UnwritableSkipped ==
    [][\A w \in Ws :
          clients[w].conn = "closing" =>
              /\ clients'[w].inbox = clients[w].inbox \/ clients'[w] = Gone
              /\ PublishStep =>
                    \A v \in Ws :
                        (/\ clients[v].conn = "open"
                         /\ clients[v].subs = {} \/ Emitted.s \in clients[v].subs)
                        => clients'[v].inbox = Append(clients[v].inbox, Emitted)]_vars

\* The first connection is in the map but no longer writable and got nothing;
\* the connection after it received the published event.
C10_Witness ==
    \E w \in Ws, v \in Ws :
        /\ w < v
        /\ bus # <<>> /\ bus[1].s \in Topics
        /\ clients[w].conn = "closing" /\ clients[w].subs = {} /\ clients[w].inbox = <<>>
        /\ clients[v].conn = "open" /\ clients[v].inbox = bus

\* C11: the events a subscriber has received are in the order in which they
\* were emitted: the bus and the fan-out never reorder two events, so never
\* two events of the same session.
C11_EmissionOrder ==
    \A w \in Ws :
        LET in == clients[w].inbox
        IN /\ \A i \in 1..Len(in) :
                 in[i].n \in 1..Len(bus) /\ bus[in[i].n] = in[i]
           /\ \A i \in 1..Len(in), j \in 1..Len(in) :
                 i < j => in[i].n < in[j].n

\* A connected subscriber has received two events of one session.
C11_Witness ==
    \E w \in Ws :
        /\ clients[w].conn = "open"
        /\ Len(clients[w].inbox) >= 2
        /\ clients[w].inbox[1].s = clients[w].inbox[2].s

\* C12: delivery is at-most-once without buffering or replay: a subscriber
\* receives something only in the step that publishes it, only while it is
\* connected and writable, and never the same event twice.
C12_AtMostOnceNoReplay ==
    [][\A w \in Ws :
          LET in == clients'[w].inbox
          IN /\ \A i \in 1..Len(in), j \in 1..Len(in) :
                   i # j => in[i].n # in[j].n
             /\ Len(in) > Len(clients[w].inbox) =>
                   /\ PublishStep
                   /\ clients[w].conn = "open"
                   /\ in = Append(clients[w].inbox, Emitted)]_vars

\* The subscriber connected after the first event was published: it holds
\* the second event only.
C12_Witness ==
    \E w \in Ws :
        /\ Len(bus) >= 2 /\ bus[1].s \in Topics
        /\ clients[w].conn = "open"
        /\ clients[w].inbox = <<bus[2]>>

\* C13: a reference-provider run whose first remote reply contains no tool
\* invocation has made exactly one remote call and ends normally there, with
\* the turn cap not reached; it makes no remote call afterwards.
C13_NoToolOneTurn ==
    [][\A s \in Ids :
          /\ (/\ run[s].pc = "remote" /\ run[s].turns = 1
              /\ run'[s] # run[s]
              /\ run'[s].asked = run[s].asked
              /\ run'[s].pc # "rejected")
             => /\ run'[s].pc = "fulfilled"
                /\ run'[s].turns = 1
                /\ run'[s].turns < maxTurns
                /\ microtasks' = <<Job("then", s)>>
          /\ run[s].pc \in {"fulfilled", "done"} => run'[s].turns = run[s].turns]_vars

\* A run ended as completed after one turn without any tool invocation.
C13_Witness ==
    \E s \in Ids :
        /\ run[s].origin = "route" /\ run[s].pc = "done"
        /\ run[s].turns = 1 /\ run[s].asked = 0
        /\ rows[s].status = "completed"

\* C14: a reference-provider run that is asked for a tool invocation in every
\* reply makes exactly maxTurns (10) remote calls: after a round of tools it
\* takes the next turn while fewer than 10 were made, and at 10 it ends
\* normally, so that the session becomes completed and never error.
C14_CapIsCleanStop ==
    [][\A s \in Ids :
          /\ run[s].turns <= maxTurns
          /\ (run[s].pc = "exec" /\ run'[s].pc # "exec") =>
                \/ /\ run'[s].pc = "remote"
                   /\ run[s].turns < maxTurns
                   /\ run'[s].turns = run[s].turns + 1
                \/ /\ run'[s].pc = "fulfilled"
                   /\ run[s].turns = maxTurns \/ s \in aborted
                   /\ microtasks' = <<Job("then", s)>>
                \/ /\ run'[s].pc = "rejected"
                   /\ run[s].calls > 1
          /\ (run[s].pc = "fulfilled" /\ run'[s].pc = "done") =>
                /\ rows'[s].status = "completed"
                /\ \A i \in 1..Len(hist'[s]) :
                      ~(IsEv(hist'[s][i], "status") /\ hist'[s][i].d = "error")]_vars

\* A run that was never cancelled ended as completed after 10 remote calls,
\* each of which asked for a tool.
C14_Witness ==
    \E s \in Ids :
        /\ run[s].pc = "done" /\ run[s].turns = maxTurns
        /\ run[s].asked >= maxTurns
        /\ s \notin aborted
        /\ rows[s].status = "completed"

\* C15: once the cancellation signal of a session is set, its run starts no
\* further turn and ends without raising an error and without an error status.
C15_CancelIsCleanStop ==
    [][\A s \in Ids :
          s \in aborted =>
              /\ run'[s].turns = run[s].turns
              /\ run'[s].pc # "rejected"
              /\ \A i \in 1..Len(hist'[s]) :
                    ~(IsEv(hist'[s][i], "status") /\ hist'[s][i].d = "error")]_vars

\* C17: no failure of a single tool invocation (exit code, timeout, arguments
\* that cannot be parsed) ends the run: a step that starts or finishes a tool
\* invocation never rejects the run.
C17_ToolFailureRecovered ==
    [][\A s \in Ids :
          (run'[s].asked > run[s].asked \/ run[s].pc = "exec")
              => run'[s].pc # "rejected"]_vars

\* C16: the tool result appended as output chunk, published as output event
\* and fed back into the conversation has the length of the raw result cut at
\* 4000: min(raw length, 4000), after a success and after a failure alike.
C16_ResultCutAt4000 ==
    \A s \in Ids : \A i \in Pos(s) :
        hist[s][i].k = "exec" =>
            LET raw == hist[s][i].d
                cut == IF raw <= 4000 THEN raw ELSE 4000
            IN /\ i + 4 <= Len(hist[s])
               /\ hist[s][i + 1].k = "append" /\ hist[s][i + 1].d = cut
               /\ IsEv(hist[s][i + 3], "output") /\ hist[s][i + 3].d = cut
               /\ hist[s][i + 4].k = "push" /\ hist[s][i + 4].d = cut

\* A tool produced more than 4000 characters and exactly 4000 were fed back.
C16_Witness ==
    \E s \in Ids : \E i \in Pos(s) :
        /\ hist[s][i].k = "exec" /\ hist[s][i].d > 4000
        /\ i + 4 <= Len(hist[s])
        /\ hist[s][i + 4].k = "push" /\ hist[s][i + 4].d = 4000

\* C18: every session whose status became error has, before that, an output
\* chunk with the failure text appended to its output, and has a status event
\* with status error; the failure was not raised to the caller that spawned
\* the session: that call neither threw nor rejected.
C18_FailureVisibleTwice ==
    \A s \in Ids : \A j \in Pos(s) :
        hist[s][j] = Eff("update", "status", "error") =>
            /\ \E i \in 1..j : hist[s][i] = Eff("append", "chunk", "error")
            /\ \E i \in Pos(s) : hist[s][i] = Ev("status", "error")
            /\ \A i \in Pos(s) :
                  /\ hist[s][i].k # "throw"
                  /\ hist[s][i].k = "return" => hist[s][i].d # "rejected"

\* A run failed after the caller got its session back.
C18_Witness ==
    \E s \in Ids :
        /\ rows[s].status = "error"
        /\ run[s].pc = "done"
        /\ rows[s].out > 0

\* C19: after the run of a registered session has ended, by completion or by
\* failure, the session is in no in-memory registry (isAlive is false and the
\* stats do not count it) while its row still exists.
C19_FinishedRunDeregistered ==
    \A s \in Ids :
        (run[s].origin \in {"route", "sdk"} /\ run[s].pc = "done") =>
            /\ s \notin providerSessions
            /\ s \notin sdkSessions
            /\ ~isAlive(s, rows[s])
            /\ rows[s].status # "absent"

\* A registry-routed run and its completion handler have finished.
C19_Witness ==
    \E s \in Ids :
        /\ run[s].origin = "route" /\ run[s].pc = "done"
        /\ \E i \in Pos(s) : hist[s][i] = Eff("register", "provider", "none")
        /\ rows[s].status = "completed"

\* C20: isAlive is decided per backend family: a primary-backend session is
\* alive iff it is in the primary registry, a terminal-fallback session iff
\* its terminal-multiplexer session exists, and a session of a registry-routed
\* backend iff it is in the registry-routed registry, which is from its
\* registration at spawn until its completion, failure or cancel.
C20_AlivePerFamily ==
    \A s \in Ids :
        rows[s].status # "absent" =>
            /\ rows[s].backend = "sdk" => (isAlive(s, rows[s]) <=> s \in sdkSessions)
            /\ rows[s].tmux => (isAlive(s, rows[s]) <=> s \in tmux)
            /\ rows[s].backend \in registry =>
                  /\ isAlive(s, rows[s]) <=> s \in providerSessions
                  /\ isAlive(s, rows[s]) <=>
                        /\ run[s].pc # "done"
                        /\ \A i \in Pos(s) : hist[s][i] # Ev("session.end", "killed")


\* ---- inbound frames ----
\* Connection w handled one more inbound frame in this step.
MsgStep(w) == clients'[w].msgs = clients[w].msgs + 1

\* The frame carries everything its type requires.
WellFormed(m) ==
    \/ m.type \in {"subscribe", "unsubscribe"} /\ m.sid # NoId
    \/ m.type = "subscribe_all"
    \/ m.type = "send" /\ m.sid # NoId /\ m.text

\* The step wrote nothing to any connection but w and changed none of them.
OthersUntouched(w) == \A v \in Ws \ {w} : clients'[v] = clients[v]

\* C21: a send command reaches the session's prompt only if the session is
\* registered with the primary backend at that moment.  A command that is
\* not forwarded (unknown session, session of another backend, ended
\* session) is answered at once with one failure reply; a forwarded one is
\* answered with one reply, success or failure, when its prompt settles.
\* Every such reply goes to the connection that sent the command and no
\* other connection is written to.
C21_SendAcknowledged ==
    [][\A w \in Ws :
          LET c == clients[w]
              d == clients'[w]
              m == d.last
              live == m.sid \in Ids /\ m.sid \in sdkSessions
          IN /\ (MsgStep(w) /\ m.type = "send" /\ WellFormed(m)) =>
                   /\ (followups' # followups \/ hist' # hist) => live
                   /\ IF live
                      THEN /\ d.acks = c.acks
                           /\ m.sid \notin c.pending
                           /\ d.pending = c.pending \cup {m.sid}
                           /\ followups' = followups \cup {m.sid}
                      ELSE /\ Len(d.acks) = Len(c.acks) + 1
                           /\ SubSeq(d.acks, 1, Len(c.acks)) = c.acks
                           /\ d.acks[Len(d.acks)].t = "error"
                           /\ d.pending = c.pending
                           /\ followups' = followups
                   /\ OthersUntouched(w)
             /\ (~MsgStep(w) /\ d.pending # c.pending) =>
                   \E s \in c.pending :
                      /\ d.pending = c.pending \ {s}
                      /\ Len(d.acks) = Len(c.acks) + 1
                      /\ SubSeq(d.acks, 1, Len(c.acks)) = c.acks
                      /\ d.acks[Len(d.acks)].t \in {"sent", "error"}
                      /\ d.acks[Len(d.acks)].s = s
                      /\ OthersUntouched(w)
             /\ (~MsgStep(w) /\ d.pending = c.pending) => d.acks = c.acks
      ]_vars

\* One connection sent two commands to the same session: the first was
\* forwarded and acknowledged, the second found the session ended.
C21_Witness ==
    \E w \in Ws, s \in Ids :
        /\ clients[w].acks =
              <<Ack("sent", s, "sent"), Ack("error", s, "send failed")>>
        /\ \E v \in Ws \ {w} : clients[v].conn = "open" /\ clients[v].acks = <<>>

\* C22: every inbound frame that is not a well-formed subscribe, unsubscribe,
\* subscribe_all or send (unknown type, invalid JSON, known type without its
\* required fields) is answered with exactly one error reply to the
\* connection it came from, changes that connection's filter not at all and
\* leaves every other connection as it was.
C22_MalformedRejected ==
    [][\A w \in Ws :
          LET c == clients[w]
              d == clients'[w]
          IN (MsgStep(w) /\ ~WellFormed(d.last)) =>
                /\ Len(d.acks) = Len(c.acks) + 1
                /\ SubSeq(d.acks, 1, Len(c.acks)) = c.acks
                /\ d.acks[Len(d.acks)].t = "error"
                /\ d.subs = c.subs
                /\ d.pending = c.pending
                /\ OthersUntouched(w)
      ]_vars

\* C23: subscribe(s) makes the connection's filter the old filter with s
\* added, unsubscribe(s) the old filter without s, subscribe_all the empty
\* filter; no frame of one connection changes the filter of another.
C23_FilterUpdates ==
    [][\A w \in Ws :
          LET c == clients[w]
              d == clients'[w]
              m == d.last
          IN MsgStep(w) =>
                /\ m.type = "subscribe" => d.subs = c.subs \cup {m.sid}
                /\ m.type = "unsubscribe" => d.subs = c.subs \ {m.sid}
                /\ m.type = "subscribe_all" => d.subs = {}
                /\ \A v \in Ws \ {w} : clients'[v].subs = clients[v].subs
      ]_vars

\* One connection widened a filter it already had, next to another
\* connection that holds a filter of its own.
C23_Witness ==
    \E w \in Ws, s \in Topics :
        /\ clients[w].msgs = 2
        /\ clients[w].last = [type |-> "subscribe", sid |-> s, text |-> FALSE]
        /\ clients[w].subs = {NoId, s}
        /\ \E v \in Ws \ {w} : clients[v].conn = "open"

\* C24: DELETE /sessions/:id kills the session and removes it: once the
\* request has been served the store holds no row of that id, so GET
\* /sessions does not list it and GET /sessions/:id answers not found.
C24_DeleteRemoves ==
    [][\A s \in Ids : CancelStep(s) => getSession(s)' = NoRow]_vars

\* ---- stats ----
\* Sessions of a backend family that were spawned and have not ended.
LiveOf(backend) ==
    {s \in Ids :
        /\ rows[s].backend = backend
        /\ rows[s].status = "running"
        /\ s \in sdkSessions \cup providerSessions \cup tmux}

\* C25: stats() reports for each backend family the number of its sessions
\* that are live, and a total that is the sum of the family counts; after any
\* sequence of spawns, completions, failures and cancels the counts equal
\* the number of sessions spawned and not yet ended.
C25_StatsCountLive ==
    \A st \in {getStats, SessionManager_getStats} :
        /\ st.total = st.sdk + st.tmux + st.provider
        /\ st.sdk = Cardinality(LiveOf("sdk"))
        /\ st.tmux = Cardinality(LiveOf("tmux"))
        /\ st.total =
              Cardinality({s \in Ids :
                  /\ rows[s].status = "running"
                  /\ s \in sdkSessions \cup providerSessions \cup tmux})

\* ---- user API ----
\* The tokens held by requesters whose user record has the given role now.
HeldBy(role) ==
    {tok \in tokens : getUser(tok.uid) # NoUser /\ getUser(tok.uid).role = role}

\* The replies a requester with token tok can get from the admin-only
\* endpoints in the current state.
AdminOnly(tok) ==
    {getUsers(tok)}
    \cup {getUsersId(tok, id) : id \in UserIds}
    \cup {deleteUsersId(tok, id) : id \in UserIds}
    \cup (IF FreeIds = {} THEN {}
          ELSE {postUsers(tok, r, TRUE, x) : r \in Roles, x \in BOOLEAN})

Success == {200, 201}

\* C26: in no sequence of logins, user creations, updates and deletions does
\* a requester whose user record has role 'user' succeed with an admin-only
\* operation (POST /users, GET /users, GET /users/:id, DELETE /users/:id):
\* the request is rejected and the user store is left unchanged.
C26_UserRoleNoAdminOps ==
    \A tok \in HeldBy("user") : \A out \in AdminOnly(tok) :
        out.code \notin Success /\ out.users = users

\* C27: a requester that is not an admin can update only its own record and
\* only name and password: its PUT /users/:id that targets another user, or
\* that submits email, role or active, is answered 403 and changes no user
\* record.
C27_NonAdminOwnNameAndPassword ==
    \A tok \in HeldBy("user") : \A id \in UserIds, body \in Bodies :
        (id # tok.uid \/ ~(body.keys \subseteq {"name", "password"})) =>
            /\ putUsersId(tok, id, body).code = 403
            /\ putUsersId(tok, id, body).users = users

\* C28: an admin never deletes its own account: DELETE /users/:id with the
\* requester's own id is rejected whatever token the requester holds, and
\* the rejected request leaves the set of users as it was; an account that
\* was deleted was deleted by the holder of another account's admin token.
C28_NoSelfDelete ==
    /\ \A tok \in tokens :
          /\ deleteUsersId(tok, tok.uid).code \notin Success
          /\ deleteUsersId(tok, tok.uid).users = users
    /\ \A u \in UserIds :
          users[u].state = "deleted" =>
              \E other \in tokens : other.uid # u /\ other.role = "admin"

\* An admin that holds an admin token was just refused a DELETE, while a
\* second account exists.
C28_Witness ==
    /\ resp = [op |-> "deleteUsersId", code |-> 400]
    /\ \E tok \in HeldBy("admin") : tok.role = "admin" /\ Others(tok.uid) # {}

\* ---- cancel ----
\* The effects the step appended to the trace of s.
Appended(s) == SubSeq(hist'[s], Len(hist[s]) + 1, Len(hist'[s]))

\* The place of effect e in d, 0 if it is not there.
Place(d, e) ==
    IF \E i \in 1..Len(d) : d[i] = e
    THEN CHOOSE i \in 1..Len(d) : d[i] = e /\ \A j \in 1..(i - 1) : d[j] # e
    ELSE 0

\* C29: cancel of a live session works in this order: the abort of the
\* backend (primary backend: native abort, then the event subscription is
\* detached; registry-routed backend: the cancellation handle is signalled),
\* then the registry entry is removed, then the terminal-multiplexer session
\* is terminated if the row records one, and only then the end-session event
\* with reason "killed" is emitted, once.  Every handle the session has is
\* reaped by the one cancel.
C29_CancelOrder ==
    [][\A s \in Ids :
          CancelStep(s) =>
             LET d == Appended(s)
                 end == Place(d, Ev("session.end", "killed"))
                 P(k, ty) == Place(d, Eff(k, ty, "none"))
             IN /\ end > 0
                /\ Count(d, Ev("session.end", "killed")) = 1
                /\ end = Len(d) - 1
                /\ IF s \in sdkSessions
                   THEN /\ 0 < P("abort", "sdk")
                        /\ P("abort", "sdk") < P("unsubscribe", "sdk")
                        /\ P("unsubscribe", "sdk") < P("unregister", "sdk")
                        /\ P("unregister", "sdk") < end
                        /\ s \notin sdkSessions' /\ s \notin listening'
                   ELSE P("abort", "sdk") = 0 /\ P("unregister", "sdk") = 0
                /\ IF s \in providerSessions
                   THEN /\ 0 < P("abort", "provider")
                        /\ P("abort", "provider") < P("unregister", "provider")
                        /\ P("unregister", "provider") < end
                        /\ s \notin providerSessions' /\ s \in aborted'
                   ELSE P("abort", "provider") = 0
                /\ IF rows[s].tmux
                   THEN /\ P("unregister", "sdk") < P("kill", "tmux")
                        /\ P("unregister", "provider") < P("kill", "tmux")
                        /\ P("kill", "tmux") < end
                        /\ s \notin tmux'
                   ELSE P("kill", "tmux") = 0
      ]_vars

\* A live session of a registry-routed backend was cancelled: its trace
\* holds the abort, the removal, the end-session event and the status
\* update in a row.
C29_Witness ==
    \E s \in Ids : \E i \in Pos(s) :
        /\ i + 3 <= Len(hist[s])
        /\ hist[s][i] = Eff("abort", "provider", "none")
        /\ hist[s][i + 1] = Eff("unregister", "provider", "none")
        /\ hist[s][i + 2] = Ev("session.end", "killed")
        /\ hist[s][i + 3] = Eff("update", "status", "stopped")

\* ---- tool invocations ----
ToolEv(e) == e.k = "event" /\ e.t \in {"tool.start", "tool.end"}

\* The tool events of s after place i, and the one before place i.
ToolEvsAfter(s, i) == {j \in Pos(s) : j > i /\ ToolEv(hist[s][j])}
ToolEvsBefore(s, i) == {j \in Pos(s) : j < i /\ ToolEv(hist[s][j])}

\* Every tool.start in the trace is followed by the start of its subprocess
\* and, unless that subprocess still runs, by its tool.end and the output
\* event with the result, before any other tool event.
Bracketed(s) ==
    \A i \in Pos(s) :
        /\ IsEv(hist[s][i], "tool.start") =>
              LET id == hist[s][i].d
                  later == ToolEvsAfter(s, i)
                  sub == Place(hist[s], Eff("launch", "exec", id))
              IN /\ sub > i
                 /\ \A j \in later : sub < j
                 /\ Count(hist[s], Eff("launch", "exec", id)) = 1
                 /\ IF later = {} THEN run[s].pc = "exec"
                    ELSE LET e == CHOOSE j \in later : \A x \in later : j <= x
                         IN /\ hist[s][e] = Ev("tool.end", id)
                            /\ e < Len(hist[s])
                            /\ IsEv(hist[s][e + 1], "output")
                            /\ hist[s][e + 1].d \in {"result", "toolerror"}
        /\ IsEv(hist[s][i], "tool.end") =>
              /\ ToolEvsBefore(s, i) # {}
              /\ LET b == CHOOSE j \in ToolEvsBefore(s, i) :
                              \A x \in ToolEvsBefore(s, i) : x <= j
                 IN hist[s][b] = Ev("tool.start", hist[s][i].d)

Cancelled(s) == \E i \in Pos(s) : hist[s][i] = Eff("abort", "provider", "none")

HasEv(d, ty) == \E j \in 1..Len(d) : IsEv(d[j], ty)

\* C31: cancellation of a registry-routed session takes effect only at turn
\* boundaries.  After the signal is set no further remote request is sent
\* (the number of turns never grows), while the turn in progress is worked
\* off as if nothing had happened: the awaited reply is processed, every
\* tool invocation it contains is started and finished with its tool.start,
\* tool.end and output events published, and only when no invocation of the
\* reply is left does the run stop, without another turn.
C31_CancelAtTurnBoundary ==
    [][\A s \in Ids :
          (Cancelled(s) /\ run[s].origin = "route") =>
              /\ run'[s].turns = run[s].turns
              /\ run'[s].pc # "remote" \/ run[s].pc = "remote"
              /\ (run[s].pc = "remote" /\ run'[s].pc = "exec") =>
                    /\ HasEv(Appended(s), "tool.start")
                    /\ Len(bus') > Len(bus)
              /\ (run[s].pc = "exec" /\ run'[s] # run[s]) =>
                    /\ Count(Appended(s), Ev("tool.end", CallId(run[s]))) = 1
                    /\ HasEv(Appended(s), "output")
                    /\ Len(bus') >= Len(bus) + 2
                    /\ IF run[s].calls > 1
                       THEN \/ run'[s].pc = "exec" /\ HasEv(Appended(s), "tool.start")
                            \/ run'[s].pc = "rejected"
                       ELSE run'[s].pc = "fulfilled"
      ]_vars

\* A session was cancelled while the subprocess of a tool invocation ran:
\* the invocation finished after the cancel with its tool.end and its output
\* event, and the run ended after that one turn.
C31_Witness ==
    \E s \in Ids : \E i \in Pos(s), j \in Pos(s) :
        /\ i < j /\ j < Len(hist[s])
        /\ hist[s][i] = Eff("abort", "provider", "none")
        /\ IsEv(hist[s][j], "tool.end")
        /\ IsEv(hist[s][j + 1], "output")
        /\ run[s].pc = "done"
        /\ run[s].turns = 1

\* ---- termination ----
\* C32: every registry-routed session that is spawned eventually has a
\* terminal status and is eventually out of the registry, whatever the
\* remote backend replies, provided every remote call and every tool
\* subprocess returns or fails; the loop never makes more than maxTurns (10)
\* remote calls.
C32_RunTerminates ==
    /\ \A s \in Ids :
          (s \in providerSessions) ~>
              (rows[s].status \in Terminal /\ s \notin providerSessions)
    /\ [](\A s \in Ids : run[s].origin = "route" => run[s].turns <= maxTurns)

\* A registered run made all ten remote calls, ended, and is out of the
\* registry with a terminal status.
C32_Witness ==
    \E s \in Ids :
        /\ \E i \in Pos(s) : hist[s][i] = Eff("register", "provider", "none")
        /\ run[s].turns = maxTurns
        /\ run[s].pc = "done"
        /\ s \notin providerSessions
        /\ rows[s].status \in Terminal

\* ---- completion and failure handlers ----
\* C33: for one backend run the completion handler and the failure handler
\* are mutually exclusive: of the terminal statuses completed and error at
\* most one is ever written to the row of a session and at most one is
\* emitted as status event, also when a step of the completion handler
\* itself (the row update, the publication of an event) fails.
C33_HandlersExclusive ==
    \A s \in Ids :
        /\ ~(/\ \E i \in Pos(s) : hist[s][i] = Eff("update", "status", "completed")
             /\ \E i \in Pos(s) : hist[s][i] = Eff("update", "status", "error"))
        /\ ~(/\ \E i \in Pos(s) : hist[s][i] = Ev("status", "completed")
             /\ \E i \in Pos(s) : hist[s][i] = Ev("status", "error"))

\* ---- the primary backend's event stream ----
\* C34: when a primary-backend session has reached a terminal state by
\* natural completion or by failure, its listener is detached from the
\* backend's event stream: no backend event that arrives afterwards, for
\* example during a follow-up prompt still in flight, is handled for it, so
\* none appends output or emits an event.
C34_DetachedAfterEnd ==
    [][\A s \in Ids :
          (run[s].origin = "sdk" /\ run[s].pc = "done") =>
              /\ s \notin listening
              /\ run'[s].seen = run[s].seen]_vars

\* ---- unsubscribing from everything ----
\* C35: a subscriber that unsubscribes from the last session of its filter
\* ends with the empty filter, and a subscriber whose filter is empty after
\* an unsubscribe receives the events of every session: unsubscribing from
\* the last subscribed session widens delivery to all sessions instead of
\* stopping it.
C35_UnsubscribeAllWidens ==
    [][\A w \in Ws :
          LET c == clients[w]
              d == clients'[w]
          IN /\ (/\ MsgStep(w)
                 /\ d.last.type = "unsubscribe"
                 /\ c.subs # {}
                 /\ c.subs \subseteq {d.last.sid})
                => d.subs = {}
             /\ (/\ PublishStep
                 /\ c.conn = "open"
                 /\ c.last.type = "unsubscribe"
                 /\ c.subs = {})
                => d.inbox = Append(c.inbox, Emitted)
      ]_vars

\* The subscriber missed an event of a session it never named while it was
\* subscribed to another one, unsubscribed from that one, and then received
\* the next event of the session it never named.
C35_Witness ==
    \E w \in Ws, s \in Topics :
        /\ clients[w].msgs = 2
        /\ clients[w].last = [type |-> "unsubscribe", sid |-> s, text |-> FALSE]
        /\ clients[w].subs = {}
        /\ Len(bus) = 2
        /\ bus[1].s = 0 /\ bus[2].s = 0
        /\ clients[w].inbox = <<bus[2]>>
        /\ clients[w].acks =
              <<Ack("subscribed", s, "none"), Ack("unsubscribed", s, "none")>>

ReconcileStep(s) ==
    /\ Len(hist'[s]) = Len(hist[s]) + 1
    /\ hist'[s][Len(hist'[s])] = Eff("update", "reconcile", "stopped")

\* The backend run of s is still executing.
Executing(s) ==
    \/ run[s].pc \in {"import", "remote", "exec", "prompt"}
    \/ run[s].pc = "tmux" /\ s \in tmux

\* C37: the reconciliation done by listing the sessions changes a row only
\* from running to stopped and only for a session whose execution has
\* ended: a session whose backend run is still executing, in particular a
\* session of a registry-routed backend in the middle of its turn loop, is
\* never marked stopped by a listing.
C37_ReconcileOnlyEnded ==
    [][\A s \in Ids :
          /\ ReconcileStep(s) =>
                /\ rows[s].status = "running"
                /\ rows'[s].status = "stopped"
                /\ ~Executing(s)
          /\ (\E x \in Ids : ReconcileStep(x)) /\ ~ReconcileStep(s) =>
                rows'[s] = rows[s]]_vars

\* ---- tool results in the conversation ----
\* The places of the subprocess starts and of the tool-result entries of s.
Launches(s) == {i \in Pos(s) : hist[s][i].k = "launch" /\ hist[s][i].t = "exec"}
Pushes(s) == {i \in Pos(s) : hist[s][i].k = "push"}

\* The n-th smallest member of a set of places.
Nth(S, n) == CHOOSE i \in S : Cardinality({j \in S : j <= i}) = n

\* C38: in every turn whose reply contains tool invocations each invocation
\* is executed once, in reply order, and exactly one tool-result entry per
\* invocation, carrying its call id, is in the conversation before the next
\* remote call: whenever the run is not inside a tool invocation, every
\* invocation it was asked for has been started once and has its result,
\* and the k-th start and the k-th result belong to the k-th invocation.
C38_EveryCallAnswered ==
    \A s \in Ids :
        run[s].origin = "route" =>
            /\ \A k \in 1..Cardinality(Launches(s)) :
                  hist[s][Nth(Launches(s), k)].d = "shell#" \o ToString(k)
            /\ \A k \in 1..Cardinality(Pushes(s)) :
                  /\ hist[s][Nth(Pushes(s), k)].d = "shell#" \o ToString(k)
                  /\ Nth(Launches(s), k) < Nth(Pushes(s), k)
            /\ Cardinality(Pushes(s)) <= Cardinality(Launches(s))
            /\ Cardinality(Launches(s)) <= Cardinality(Pushes(s)) + 1
            /\ run[s].pc # "exec" =>
                  /\ Cardinality(Launches(s)) = run[s].asked
                  /\ Cardinality(Pushes(s)) = run[s].asked

\* ---- the frame of cancel ----
\* C39: cancel(X) affects session X only: the registry entries, the
\* cancellation signals, the event subscriptions, the multiplexer sessions,
\* the runs and the rows of every other session are as they were, and the
\* only event the cancel emits carries the session id X.
C39_CancelFrame ==
    [][\A x \in Ids :
          CancelStep(x) =>
              /\ \A o \in Ids \ {x} :
                    /\ (o \in sdkSessions') = (o \in sdkSessions)
                    /\ (o \in providerSessions') = (o \in providerSessions)
                    /\ (o \in aborted') = (o \in aborted)
                    /\ (o \in listening') = (o \in listening)
                    /\ (o \in tmux') = (o \in tmux)
                    /\ rows'[o] = rows[o]
                    /\ hist'[o] = hist[o]
                    /\ run'[o] = run[o]
              /\ Len(bus') = Len(bus) + 1
              /\ bus'[Len(bus')].s = x
              /\ bus'[Len(bus')].t = "session.end"
      ]_vars

\* A registry-routed session was cancelled in the middle of its run while
\* another registry-routed session is registered, unsignalled and running.
C39_Witness ==
    \E x \in Ids, o \in Ids :
        /\ x # o
        /\ x \in aborted /\ x \notin providerSessions
        /\ rows[x].status = "stopped"
        /\ o \in providerSessions /\ o \notin aborted
        /\ rows[o].status = "running"
        /\ bus[Len(bus)] =
              [s |-> x, n |-> Len(bus), t |-> "session.end", d |-> "killed"]

\* ---- the subscriber set ----
\* C40: the subscriber set holds exactly the connections that connected and
\* have not closed or failed since: a connection enters it with an empty
\* filter, leaves it on close or error, and from then on receives nothing
\* and is not counted in the reported number of clients; the removal of one
\* subscriber leaves every other subscriber, its filter and what it has
\* received as they were.
C40_SubscriberSet ==
    [][/\ \A w \in Ws :
             LET c == clients[w]
                 d == clients'[w]
             IN /\ (c.conn = "new" /\ d.conn # "new") =>
                      d.conn = "open" /\ d.subs = {} /\ d.inbox = <<>>
                /\ (InMap(c) /\ ~InMap(d)) =>
                      /\ d = Gone
                      /\ \A v \in Ws \ {w} : clients'[v] = clients[v]
                /\ c.conn = "closed" => d = c
       /\ (\E w \in Ws : ~InMap(clients[w]) /\ InMap(clients'[w])) =>
             getWsStats'.clients = getWsStats.clients + 1
       /\ (\E w \in Ws : InMap(clients[w]) /\ ~InMap(clients'[w])) =>
             getWsStats'.clients = getWsStats.clients - 1
      ]_vars

\* Of two subscribers with filters of their own the first has closed: it
\* holds nothing of the event published afterwards and is not counted, the
\* second kept its filter and received the event.
C40_Witness ==
    \E w \in Ws, v \in Ws :
        /\ w # v
        /\ clients[w] = Gone
        /\ clients[v].conn = "open"
        /\ clients[v].subs # {}
        /\ bus # <<>>
        /\ clients[v].inbox = bus
        /\ getWsStats.clients = 1
====
